---- MODULE Spec2Model ----
(***************************************************************************)
(* A model of bxson: the binary JSON codec (bjson.js: encode / decode) and *)
(* the growable PushBuffer it writes to and reads from (pushbuf.js).       *)
(*                                                                         *)
(* JavaScript values are records with a field t (the typeof / class).      *)
(* A number is an IEEE-754 double, kept as its sign s, its biased exponent *)
(* e and its 52 mantissa bits m, so that -0, NaN, the infinities, the      *)
(* fractions and the integers beyond 32 bits are all values of the model   *)
(* and the 32-bit integer operators (|, &, >>, <<) act on them as in JS.   *)
(* Bytes are the integers 0..255; a string is the sequence of its UTF-16   *)
(* code units.                                                             *)
(***************************************************************************)
EXTENDS Integers, Sequences, FiniteSets, TLC

\* pc:     where the caller is (idle, encoded, received, decoded)
\* arg:    the value handed to encode
\* wbuf:   the PushBuffer encode wrote to
\* wire:   the bytes encode returned, or bytes received from a peer
\* result: what decode(wire) returned or threw
\* rbuf:   the PushBuffer decode read from
\* pbuf:    a PushBuffer used on its own, through its methods
\* written: the bytes pushed or appended to pbuf so far (the bytes it was made over first)
\* op:      the last method called on pbuf, its arguments, and pbuf as it was before
\* pure:    pbuf was created empty and only push has been called on it
VARIABLES pc, arg, wbuf, wire, result, rbuf, pbuf, written, op, pure

codecvars == <<pc, arg, wbuf, wire, result, rbuf>>
bufvars == <<pbuf, written, op, pure>>
vars == <<pc, arg, wbuf, wire, result, rbuf, pbuf, written, op, pure>>

(***************************************************************************)
(* Bits.  Sequences of 0/1, most significant bit first.                    *)
(***************************************************************************)
Zeros(k) == [i \in 1..k |-> 0]

\* the w low bits of n >= 0, w <= 31
Bits(n, w) == [i \in 1..w |-> (n \div (2 ^ (w - i))) % 2]

RECURSIVE BitsVal(_)
\* the number a bit sequence of at most 31 bits denotes
BitsVal(b) == IF Len(b) = 0 THEN 0 ELSE 2 * BitsVal(SubSeq(b, 1, Len(b) - 1)) + b[Len(b)]

MinOf(S) == CHOOSE x \in S : \A y \in S : x <= y
MaxOf(S) == CHOOSE x \in S : \A y \in S : x >= y

StripZeros(b) ==
    LET ones == {i \in 1..Len(b) : b[i] = 1}
    IN  IF ones = {} THEN <<>> ELSE SubSeq(b, MinOf(ones), Len(b))

\* b + 1, one bit longer when b is all ones
BitsInc(b) ==
    LET zs == {i \in 1..Len(b) : b[i] = 0}
    IN  IF zs = {} THEN <<1>> \o Zeros(Len(b))
        ELSE [i \in 1..Len(b) |-> IF i < MaxOf(zs) THEN b[i] ELSE IF i = MaxOf(zs) THEN 1 ELSE 0]

\* the last w bits of b, zero-extended on the left
LowBits(b, w) ==
    IF Len(b) >= w THEN SubSeq(b, Len(b) - w + 1, Len(b)) ELSE Zeros(w - Len(b)) \o b

BitsLess(a, b) ==
    \E i \in 1..Len(a) : a[i] < b[i] /\ \A j \in 1..(i - 1) : a[j] = b[j]

(***************************************************************************)
(* Numbers: IEEE-754 doubles.                                              *)
(***************************************************************************)
Dbl(s, e, m) == [t |-> "number", s |-> s, e |-> e, m |-> m]

NaN    == Dbl(0, 2047, <<1>> \o Zeros(51))
PosInf == Dbl(0, 2047, Zeros(52))
NegInf == Dbl(1, 2047, Zeros(52))
PosZero == Dbl(0, 0, Zeros(52))
NegZero == Dbl(1, 0, Zeros(52))

IsNaN(d)    == d.e = 2047 /\ d.m # Zeros(52)
IsFinite(d) == d.e # 2047
IsZero(d)   == d.e = 0 /\ d.m = Zeros(52)

\* unary minus
Negate(d) == IF IsNaN(d) THEN d ELSE Dbl(1 - d.s, d.e, d.m)

\* the double nearest to the integer with sign s and magnitude bits b
\* (round to nearest, ties to even): exact when b has at most 53 significant bits
RoundToDouble(s, bits) ==
    LET b == StripZeros(bits)
        n == Len(b)
    IN  IF n = 0 THEN Dbl(s, 0, Zeros(52))
        ELSE IF n <= 53 THEN Dbl(s, 1022 + n, SubSeq(b, 2, n) \o Zeros(53 - n))
        ELSE LET keep   == SubSeq(b, 1, 53)
                 sticky == \E i \in 55..n : b[i] = 1
                 up     == b[54] = 1 /\ (sticky \/ keep[53] = 1)
                 inc    == BitsInc(keep)
             IN  IF ~up THEN Dbl(s, 1022 + n, SubSeq(keep, 2, 53))
                 ELSE IF Len(inc) = 54 THEN Dbl(s, 1023 + n, Zeros(52))
                 ELSE Dbl(s, 1022 + n, SubSeq(inc, 2, 53))

\* the magnitude bits of the integer part of a finite double (truncation)
IntegerBits(d) ==
    LET ex   == d.e - 1023
        full == <<1>> \o d.m
    IN  IF d.e = 0 \/ ex < 0 THEN <<>>
        ELSE IF ex <= 52 THEN SubSeq(full, 1, ex + 1)
        ELSE full \o Zeros(ex - 52)

IsIntegral(d) ==
    /\ IsFinite(d)
    /\ \/ IsZero(d)
       \/ /\ d.e >= 1023
          /\ \A i \in 1..52 : i > d.e - 1023 => d.m[i] = 0

MinInt32 == -2147483647 - 1

\* ECMAScript ToInt32 of a number: truncate, wrap modulo 2^32, read as signed
NumToInt32(d) ==
    IF ~IsFinite(d) THEN 0
    ELSE LET low  == LowBits(IntegerBits(d), 32)
             lo31 == BitsVal(SubSeq(low, 2, 32))
         IN  IF d.s = 0 THEN (IF low[1] = 1 THEN MinInt32 + lo31 ELSE lo31)
             ELSE IF low[1] = 0 THEN -lo31
             ELSE IF lo31 = 0 THEN MinInt32
             ELSE (2147483647 - lo31) + 1

\* the number an int32 result denotes
FromInt(n) ==
    IF n = 0 THEN PosZero
    ELSE IF n > 0 THEN RoundToDouble(0, Bits(n, 31))
    ELSE IF n = MinInt32 THEN Dbl(1, 1054, Zeros(52))
    ELSE RoundToDouble(1, Bits(-n, 31))

\* a === b on numbers
NumStrictEq(a, b) ==
    /\ ~IsNaN(a) /\ ~IsNaN(b)
    /\ (a = b \/ (IsZero(a) /\ IsZero(b)))

MagLess(a, b) == a.e < b.e \/ (a.e = b.e /\ BitsLess(a.m, b.m))

\* a < b on numbers
NumLess(a, b) ==
    /\ ~IsNaN(a) /\ ~IsNaN(b)
    /\ ~(IsZero(a) /\ IsZero(b))
    /\ IF a.s # b.s THEN a.s = 1
       ELSE IF a.s = 0 THEN MagLess(a, b) ELSE MagLess(b, a)

NumLessEq(a, b) == NumLess(a, b) \/ NumStrictEq(a, b)

\* mutation of NumDivPow2: the division is lost
NumDivPow2_none(d, k) == d

\* d / 2^k for a normal d whose quotient is normal too (exact: only the exponent moves)
NumDivPow2(d, k) ==
    IF IsZero(d) \/ ~IsFinite(d) THEN d ELSE Dbl(d.s, d.e - k, d.m)

(***************************************************************************)
(* The 32-bit integer operators of JavaScript, on int32 operands.          *)
(***************************************************************************)
\* a & mask, for a mask in 0 .. 2^31-1
BitAnd(a, mask) == BitsVal([i \in 1..31 |-> Bits(a, 31)[i] * Bits(mask, 31)[i]])

\* a | b, for a and b in 0 .. 2^31-1
BitOr(a, b) ==
    BitsVal([i \in 1..31 |-> IF Bits(a, 31)[i] = 1 \/ Bits(b, 31)[i] = 1 THEN 1 ELSE 0])

\* a >> k (sign-propagating)
Sar(a, k) == a \div (2 ^ k)

\* a << k for 1 <= k <= 31: the bits shifted out are lost, bit 31 becomes the sign
Shl(a, k) ==
    LET low == a % (2 ^ (32 - k))
    IN  IF low >= 2 ^ (31 - k) THEN (low - 2 ^ (32 - k)) * (2 ^ k) ELSE low * (2 ^ k)

(***************************************************************************)
(* Other JavaScript values.                                                *)
(***************************************************************************)
Undefined == [t |-> "undefined"]
Null      == [t |-> "null"]
Bool(b)   == [t |-> "boolean", b |-> b]
Str(u)    == [t |-> "string", u |-> u]       \* u: UTF-16 code units
Bytes(b)  == [t |-> "Buffer", bytes |-> b]   \* b: bytes
Arr(a)    == [t |-> "Array", a |-> a]        \* a: the elements
Obj(p)    == [t |-> "Object", p |-> p]       \* p: <<key, value>> pairs in enumeration order

\* values of the host that the format has no type for
Function == [t |-> "function"]
Symbol   == [t |-> "symbol"]
BigInt   == [t |-> "bigint"]

\* the place of a missing element of a sparse array: reading it yields undefined
Hole == [t |-> "hole"]

\* the toJSON of an object that has no such method
NoJSON == [t |-> "none"]

\* any other object of the host: its constructor, what its toJSON() returns, what its
\* valueOf() returns, and its own enumerable properties (the elements, for an array)
Host(ctor, json, prim, own) ==
    [t |-> "object", ctor |-> ctor, toJSON |-> json, valueOf |-> prim, own |-> own]

IsObject(v) == v.t \in {"Object", "Array", "Buffer", "object"}

\* what reading index i of a buffer yields when i is outside it (undefined)
Absent == -1
\* a byte of an allocUnsafe Buffer that was never written
Unwritten == -2

RawToInt32(x)  == IF x = Absent THEN 0 ELSE x
RawToNumber(x) == IF x = Absent THEN NaN ELSE FromInt(x)
RawToValue(x)  == IF x = Absent THEN Undefined ELSE FromInt(x)

\* ToInt32 of a value used as an operand of a bitwise operator
ToInt32(v) == IF v.t = "number" THEN NumToInt32(v) ELSE 0

(***************************************************************************)
(* bjson.js: the typecodes.                                                *)
(***************************************************************************)
\* mutation of IMMED_RANGE: all 6 bits of the tag taken as an unsigned range
IMMED_RANGE_unsigned == 2 * 32

IMMED_RANGE   == 32
T_INTI        == 0
T_NULL        == 64
\* mutation of T_UNDEFINED: what has no type is written as null, as JSON does in arrays
T_UNDEFINED_null == T_NULL
T_UNDEFINED   == 65
T_FALSE       == 66
T_TRUE        == 67
T_UINTB       == 68
T_NEGINTB     == 72
T_FLOAT32     == 78
T_FLOAT64     == 79
\* mutation of MASK_BYTELEN: one bit of the width selector
MASK_BYTELEN_narrow == 4 - 3
MASK_BYTELEN  == 3
T_STRINGB     == 128
T_BYTESB      == 144
T_ARRAYB      == 160
T_OBJECTB     == 176
MASK_SHORTLEN == 15
T_STRINGI     == 192
T_BYTESI      == 208
T_ARRAYI      == 224
T_OBJECTI     == 240

(***************************************************************************)
(* pushbuf.js: the PushBuffer.  buf holds the bytes at indexes             *)
(* 0 .. Len(buf)-1 of the underlying Buffer; size is the Buffer's length   *)
(* (the bytes between Len(buf) and size were never written).               *)
(***************************************************************************)
NoBytes == <<>>

PushBuffer(bs) ==
    [buf |-> bs, size |-> Len(bs), capacity |-> 0, pos |-> 0, end |-> Len(bs)]

\* buf[i], i counted from 0
\* (a byte of the Buffer that was never written is Unwritten; outside it, undefined)
BufGet(pb, i) ==
    IF i >= 0 /\ i < Len(pb.buf) THEN pb.buf[i + 1]
    ELSE IF i >= 0 /\ i < pb.size THEN Unwritten ELSE Absent

\* mutation of _growBuf: the capacity is doubled and the bytes asked for are not added
_growBuf_double(pb, n) ==
    IF pb.end + n > pb.capacity
    THEN [pb EXCEPT !.capacity = 2 * pb.capacity + 256, !.size = 2 * pb.capacity + 256]
    ELSE pb

_growBuf(pb, n) ==
    IF pb.end + n > pb.capacity
    THEN LET cap == 2 * pb.capacity + 256 + n
         IN  [pb EXCEPT !.capacity = cap,
                        !.size = cap,
                        !.buf = IF Len(pb.buf) > cap THEN SubSeq(pb.buf, 1, cap) ELSE pb.buf]
    ELSE pb

reserve(pb, n) == _growBuf(pb, n)

\* buf[at + k] = bs[k + 1] for each k: the stores outside the Buffer are ignored, and
\* a byte never written that the stores leave below them stays unwritten
BufSetAll(pb, at, bs) ==
    LET top    == IF at + Len(bs) > pb.size THEN pb.size ELSE at + Len(bs)
        newlen == IF top > Len(pb.buf) THEN top ELSE Len(pb.buf)
    IN  IF Len(bs) = 0 THEN pb
        ELSE IF at = Len(pb.buf) /\ at + Len(bs) <= pb.size THEN [pb EXCEPT !.buf = pb.buf \o bs]
        ELSE [pb EXCEPT !.buf = [k \in 1..newlen |->
                 IF k - 1 >= at /\ k - 1 < at + Len(bs) THEN bs[k - at]
                 ELSE IF k <= Len(pb.buf) THEN pb.buf[k] ELSE Unwritten]]

\* mutation of append: the arguments of one call are stored last to first
append_reversed(pb, args) ==
    [BufSetAll(pb, pb.end, [k \in 1..Len(args) |-> args[Len(args) + 1 - k] % 256])
        EXCEPT !.end = pb.end + Len(args)]

\* buf[this.end++] = arguments[i] & 0xff, for each argument (an int32)
append(pb, args) ==
    [BufSetAll(pb, pb.end, [k \in 1..Len(args) |-> args[k] % 256]) EXCEPT !.end = pb.end + Len(args)]

push(pb, args) == append(_growBuf(pb, Len(args)), args)

\* mutation of poke: end is moved behind the bytes written
poke_advance(pb, at, args) ==
    [BufSetAll(pb, at, [k \in 1..Len(args) |-> args[k] % 256]) EXCEPT !.end = at + Len(args)]

\* buf[end++] = arguments[i] & 0xff from end = arguments[0] on: this.end is not touched
poke(pb, at, args) == BufSetAll(pb, at, [k \in 1..Len(args) |-> args[k] % 256])

\* this.buf.slice(base || 0, bound || this.end): the bytes of the Buffer at lo .. hi - 1,
\* those of them that the Buffer has
slice(pb, base, bound) ==
    LET lo  == IF base = 0 THEN 0 ELSE base
        hi  == IF bound = 0 THEN pb.end ELSE bound
        top == IF hi > pb.size THEN pb.size ELSE hi
    IN  IF top <= Len(pb.buf) THEN SubSeq(pb.buf, lo + 1, top)
        ELSE [k \in 1 .. top - lo |-> BufGet(pb, lo + k - 1)]

\* mutation of MulAdd256: (val * 256 + buf[pos]) | 0, cut to 32 bits at every step
MulAdd256_int32(val, raw) ==
    IF raw = Absent \/ IsNaN(val) THEN NaN
    ELSE FromInt(NumToInt32(RoundToDouble(0, IntegerBits(val) \o Bits(raw, 8))))

\* val * 256 + buf[pos], in double arithmetic: the product is exact, the sum is rounded
MulAdd256(val, raw) ==
    IF raw = Absent \/ IsNaN(val) THEN NaN
    ELSE RoundToDouble(0, IntegerBits(val) \o Bits(raw, 8))

\* mutation of shiftLoopBE: the widths without a case of their own read nothing
shiftLoopBE_none(pb, n, val) == [v |-> NaN, pb |-> pb]

RECURSIVE shiftLoopBE(_, _, _)
shiftLoopBE(pb, n, val) ==
    IF n <= 0 THEN [v |-> val, pb |-> pb]
    ELSE shiftLoopBE([pb EXCEPT !.pos = pb.pos + 1], n - 1, MulAdd256(val, BufGet(pb, pb.pos)))

\* mutation of shiftBE: the bytes are joined by 32-bit operators,
\* (b0 << 24) | (b1 << 16) | ..., so that bit 31 is read as a sign
shiftBE_int32(pb, n) ==
    LET r == shiftLoopBE(pb, n, PosZero)
    IN  [v |-> IF IsNaN(r.v) THEN NaN ELSE FromInt(NumToInt32(r.v)), pb |-> r.pb]

shiftBE(pb, n) ==
    LET b0 == BufGet(pb, pb.pos)
        b1 == BufGet(pb, pb.pos + 1)
        b2 == BufGet(pb, pb.pos + 2)
        b3 == BufGet(pb, pb.pos + 3)
    IN  CASE n = 4 ->
               LET low == BitOr(BitOr(Shl(RawToInt32(b1), 16), Shl(RawToInt32(b2), 8)), RawToInt32(b3))
               IN  [v  |-> IF b0 = Absent THEN NaN ELSE RoundToDouble(0, Bits(b0, 8) \o Bits(low, 24)),
                    pb |-> [pb EXCEPT !.pos = pb.pos + 4]]
          [] n = 2 ->
               [v  |-> FromInt(BitOr(Shl(RawToInt32(b0), 8), RawToInt32(b1))),
                pb |-> [pb EXCEPT !.pos = pb.pos + 2]]
          [] n = 1 ->
               [v |-> RawToValue(b0), pb |-> [pb EXCEPT !.pos = pb.pos + 1]]
          [] OTHER -> shiftLoopBE(pb, n, PosZero)

RECURSIVE CarryInto(_, _, _)
\* the carry into bit i of a + b, for bit sequences of one length
CarryInto(a, b, i) ==
    IF i >= Len(a) THEN 0 ELSE (a[i + 1] + b[i + 1] + CarryInto(a, b, i + 1)) \div 2

\* x + y on bit sequences
AddBits(x, y) ==
    LET w == (IF Len(x) > Len(y) THEN Len(x) ELSE Len(y)) + 1
        a == LowBits(x, w)
        b == LowBits(y, w)
    IN  [i \in 1..w |-> (a[i] + b[i] + CarryInto(a, b, i)) % 2]

\* val + raw * 2^shift for val >= 0, in double arithmetic: the product is exact, the sum
\* is rounded
AddScaled(val, raw, shift) ==
    IF raw = Absent \/ IsNaN(val) THEN NaN
    ELSE RoundToDouble(0, AddBits(IntegerBits(val), Bits(raw, 8) \o Zeros(shift)))

RECURSIVE shiftLoopLE(_, _, _, _)
\* val += buf[this.pos++] * scale; scale *= 256, for i = done .. n - 1
shiftLoopLE(pb, n, done, val) ==
    IF done >= n THEN [v |-> val, pb |-> pb]
    ELSE shiftLoopLE([pb EXCEPT !.pos = pb.pos + 1], n, done + 1,
                     AddScaled(val, BufGet(pb, pb.pos), 8 * done))

\* mutation of shiftLE: the bytes are read most significant first
shiftLE_be(pb, n) == shiftBE(pb, n)

shiftLE(pb, n) ==
    LET b0 == BufGet(pb, pb.pos)
        b1 == BufGet(pb, pb.pos + 1)
        b2 == BufGet(pb, pb.pos + 2)
        b3 == BufGet(pb, pb.pos + 3)
    IN  CASE n = 4 ->
               LET low == BitOr(BitOr(RawToInt32(b0), Shl(RawToInt32(b1), 8)), Shl(RawToInt32(b2), 16))
               IN  [v  |-> IF b3 = Absent THEN NaN ELSE RoundToDouble(0, Bits(b3, 8) \o Bits(low, 24)),
                    pb |-> [pb EXCEPT !.pos = pb.pos + 4]]
          [] n = 2 ->
               [v  |-> FromInt(BitOr(RawToInt32(b0), Shl(RawToInt32(b1), 8))),
                pb |-> [pb EXCEPT !.pos = pb.pos + 2]]
          [] n = 1 ->
               [v |-> RawToValue(b0), pb |-> [pb EXCEPT !.pos = pb.pos + 1]]
          [] OTHER -> shiftLoopLE(pb, n, 0, PosZero)

RECURSIVE pushVarintLoop(_, _)
\* while (v >= 128) { buf[this.end++] = v & 0x7f; v /= 128 }
pushVarintLoop(pb, v) ==
    IF ~NumLessEq(FromInt(128), v) THEN [v |-> v, pb |-> pb]
    ELSE pushVarintLoop([BufSetAll(pb, pb.end, <<BitAnd(NumToInt32(v), 127)>>) EXCEPT !.end = pb.end + 1],
                        NumDivPow2(v, 7))

\* pushVarint(v) for a number v >= 0
pushVarint(pb, v) ==
    LET st == pushVarintLoop(_growBuf(pb, 10), v)
    IN  [BufSetAll(st.pb, st.pb.end, <<BitOr(NumToInt32(st.v), 128) % 256>>) EXCEPT !.end = st.pb.end + 1]

RECURSIVE shiftVarintLoop(_, _, _)
\* while ((ch = buf[this.pos++]) < 128) { v += scale * ch; scale *= 128 }, with
\* scale = 2^shift, and then v += scale * (ch & 0x7f)
shiftVarintLoop(pb, v, shift) ==
    LET ch   == BufGet(pb, pb.pos)
        next == [pb EXCEPT !.pos = pb.pos + 1]
    IN  IF ch # Absent /\ ch < 128 THEN shiftVarintLoop(next, AddScaled(v, ch, shift), shift + 7)
        ELSE [v |-> AddScaled(v, BitAnd(RawToInt32(ch), 127), shift), pb |-> next]

\* mutation of shiftVarint: the scale starts at 2
shiftVarint_scaled(pb) == shiftVarintLoop(pb, PosZero, 1)

shiftVarint(pb) == shiftVarintLoop(pb, PosZero, 0)

\* ieee-float writeDoubleBE: the 8 bytes of the double, sign and exponent first
DoubleBytes(d) ==
    LET b64 == <<d.s>> \o Bits(d.e, 11) \o d.m
    IN  [k \in 1..8 |-> BitsVal(SubSeq(b64, 8 * k - 7, 8 * k))]

\* ieee-float readDoubleBE; every NaN bit pattern reads as the one NaN of JavaScript
BytesDouble(b) ==
    LET b64 == Bits(b[1], 8) \o Bits(b[2], 8) \o Bits(b[3], 8) \o Bits(b[4], 8)
               \o Bits(b[5], 8) \o Bits(b[6], 8) \o Bits(b[7], 8) \o Bits(b[8], 8)
        d   == Dbl(b64[1], BitsVal(SubSeq(b64, 2, 12)), SubSeq(b64, 13, 64))
    IN  IF IsNaN(d) THEN NaN ELSE d

\* ieee-float readFloatBE: the double equal to the IEEE single in 4 bytes
BytesFloat(b) ==
    LET b32 == Bits(b[1], 8) \o Bits(b[2], 8) \o Bits(b[3], 8) \o Bits(b[4], 8)
        s   == b32[1]
        e   == BitsVal(SubSeq(b32, 2, 9))
        m   == SubSeq(b32, 10, 32)
        sig == StripZeros(m)
    IN  IF e = 255 THEN (IF m = Zeros(23) THEN Dbl(s, 2047, Zeros(52)) ELSE NaN)
        ELSE IF e = 0 THEN
            (IF sig = <<>> THEN Dbl(s, 0, Zeros(52))
             ELSE Dbl(s, 1023 - 149 + Len(sig) - 1, SubSeq(sig, 2, Len(sig)) \o Zeros(53 - Len(sig))))
        ELSE Dbl(s, e - 127 + 1023, m \o Zeros(29))

appendDoubleBE(pb, v) ==
    [BufSetAll(pb, pb.end, DoubleBytes(v)) EXCEPT !.end = pb.end + 8]

\* Buffer.slice(from, to) as a sequence of raw reads (Absent outside the buffer)
RawBytes(pb, from, n) == [k \in 1..n |-> BufGet(pb, from + k - 1)]

shiftFloatBE(pb) ==
    LET raw == RawBytes(pb, pb.pos, 4)
    IN  [v  |-> IF \E k \in 1..4 : raw[k] = Absent THEN NaN ELSE BytesFloat(raw),
         pb |-> [pb EXCEPT !.pos = pb.pos + 4]]

shiftDoubleBE(pb) ==
    LET raw == RawBytes(pb, pb.pos, 8)
    IN  [v  |-> IF \E k \in 1..8 : raw[k] = Absent THEN NaN ELSE BytesDouble(raw),
         pb |-> [pb EXCEPT !.pos = pb.pos + 8]]

(***************************************************************************)
(* pushbuf.js: strings.  A loop of the source is a step operator applied   *)
(* n times, n an upper bound of its iterations (a step made after the      *)
(* loop has ended changes nothing); the n steps are split in halves so     *)
(* that long loops stay shallow.                                           *)
(***************************************************************************)
RECURSIVE FlatRange(_, _, _)
\* f[lo] \o ... \o f[hi]
FlatRange(f, lo, hi) ==
    IF lo > hi THEN <<>>
    ELSE IF lo = hi THEN f[lo]
    ELSE FlatRange(f, lo, (lo + hi) \div 2) \o FlatRange(f, (lo + hi) \div 2 + 1, hi)

\* mutation of CharCodeAt: no code unit is found behind the one at hand
CharCodeAt_none(str, i) == Absent

\* str.charCodeAt(i): NaN (Absent) outside the string
CharCodeAt(str, i) == IF i >= 0 /\ i < Len(str) THEN str[i + 1] ELSE Absent

IsLead(c)  == c # Absent /\ c >= 55296 /\ c <= 56319      \* D800..DBFF
IsTrail(c) == c # Absent /\ c >= 56320 /\ c <= 57343      \* DC00..DFFF

\* the UTF-8 bytes of a code point
Utf8OfCodePoint(cp) ==
    IF cp <= 127 THEN <<cp>>
    ELSE IF cp <= 2047 THEN <<192 + (cp \div 64), 128 + (cp % 64)>>
    ELSE IF cp <= 65535 THEN <<224 + (cp \div 4096), 128 + ((cp \div 64) % 64), 128 + (cp % 64)>>
    ELSE <<240 + (cp \div 262144), 128 + ((cp \div 4096) % 64), 128 + ((cp \div 64) % 64), 128 + (cp % 64)>>

\* Node's own UTF-8 encoder (Buffer.write, Buffer.byteLength), one code unit at a time:
\* a surrogate pair is one 4-byte character, a lone surrogate is written as U+FFFD
NativeUtf8Unit(str, i) ==
    LET c == str[i]
    IN  IF IsLead(c) /\ i < Len(str) /\ IsTrail(str[i + 1])
        THEN Utf8OfCodePoint(65536 + (c - 55296) * 1024 + (str[i + 1] - 56320))
        ELSE IF IsTrail(c) /\ i > 1 /\ IsLead(str[i - 1]) THEN <<>>
        ELSE IF IsLead(c) \/ IsTrail(c) THEN <<239, 191, 189>>
        ELSE Utf8OfCodePoint(c)

NativeUtf8(str) == FlatRange([i \in 1..Len(str) |-> NativeUtf8Unit(str, i)], 1, Len(str))

BufferByteLength(str) == Len(NativeUtf8(str))

\* buf.write(str, at, 'utf8'): the whole characters that fit; returns the new buffer and
\* the number of bytes written
bufWrite(pb, str, at) ==
    LET all  == NativeUtf8(str)
        room == IF pb.size > at THEN pb.size - at ELSE 0
        fits == {k \in 0..Len(str) :
                    /\ ~(k >= 1 /\ k < Len(str) /\ IsLead(str[k]) /\ IsTrail(str[k + 1]))
                    /\ Len(NativeUtf8(SubSeq(str, 1, k))) <= room}
        bs   == IF Len(all) <= room THEN all ELSE NativeUtf8(SubSeq(str, 1, MaxOf(fits)))
    IN  [pb |-> BufSetAll(pb, at, bs), n |-> Len(bs)]

pushStringStep(st, str) ==
    IF st.i >= Len(str) THEN st
    ELSE LET code  == str[st.i + 1]
             code2 == CharCodeAt(str, st.i + 1)
             cp    == 65536 + Shl(code - 55296, 10) + (code2 - 56320)
             pair  == st.i + 1 < Len(str) /\ code <= 56319 /\ code2 # Absent
                      /\ code2 >= 56320 /\ code2 <= 57343
             out   == IF code <= 127 THEN <<code>>
                      ELSE IF code <= 2047
                      THEN <<BitOr(192, Sar(code, 6)), BitOr(128, BitAnd(code, 63))>>
                      ELSE IF code <= 55295 \/ code >= 57344
                      THEN <<BitOr(224, BitAnd(Sar(code, 12), 15)),
                             BitOr(128, BitAnd(Sar(code, 6), 63)),
                             BitOr(128, BitAnd(code, 63))>>
                      ELSE IF pair
                      THEN <<BitOr(240, BitAnd(Sar(cp, 18), 7)),
                             BitOr(128, BitAnd(Sar(cp, 12), 63)),
                             BitOr(128, BitAnd(Sar(cp, 6), 63)),
                             BitOr(128, BitAnd(cp, 63))>>
                      ELSE <<239, 191, 189>>
             skip  == IF ~(code <= 55295 \/ code >= 57344) /\ pair THEN 2 ELSE 1
         IN  [i |-> st.i + skip, ix |-> st.ix + Len(out), pb |-> BufSetAll(st.pb, st.ix, out)]

RECURSIVE pushStringLoop(_, _, _)
pushStringLoop(st, str, n) ==
    IF n <= 0 THEN st
    ELSE IF n = 1 THEN pushStringStep(st, str)
    ELSE LET half == pushStringLoop(st, str, n \div 2)
         IN  IF half.i >= Len(str) THEN half ELSE pushStringLoop(half, str, n - n \div 2)

\* mutation of guessByteLength: one byte for each code unit
guessByteLength_units(s) == Len(s)

guessByteLength(s) ==
    IF Len(s) > 100 THEN BufferByteLength(s)
    ELSE Len(s) + 2 * Cardinality({i \in 1..Len(s) : s[i] > 127})

byteLengthStep(st, s) ==
    IF st.i >= Len(s) THEN st
    ELSE LET code  == s[st.i + 1]
             code2 == CharCodeAt(s, st.i + 1)
             len1  == st.len + (IF code > 127 THEN 1 + (IF code > 2047 THEN 1 ELSE 0) ELSE 0)
             pair  == code >= 55296 /\ code < 56320
                      /\ code2 # Absent /\ code2 >= 56320 /\ code2 <= 57343
         IN  [i |-> st.i + (IF pair THEN 2 ELSE 1), len |-> len1]

RECURSIVE byteLengthLoop(_, _, _)
byteLengthLoop(st, s, n) ==
    IF n <= 0 THEN st
    ELSE IF n = 1 THEN byteLengthStep(st, s)
    ELSE LET half == byteLengthLoop(st, s, n \div 2)
         IN  IF half.i >= Len(s) THEN half ELSE byteLengthLoop(half, s, n - n \div 2)

\* mutation of byteLength: three bytes for every code unit above 0x7f
byteLength_guess(s) == guessByteLength(s)

byteLength(s) ==
    IF Len(s) > 100 THEN BufferByteLength(s)
    ELSE byteLengthLoop([i |-> 0, len |-> Len(s)], s, Len(s)).len

\* len = 0 stands for a call without the length hint too
pushString(pb, str, len) ==
    LET len1 == IF len = 0 THEN guessByteLength(str) ELSE len
        pb1  == IF pb.end + len1 > pb.capacity THEN _growBuf(pb, len1) ELSE pb
    IN  IF len1 > 100
        THEN LET w == bufWrite(pb1, str, pb1.end) IN [w.pb EXCEPT !.end = pb1.end + w.n]
        ELSE LET st == pushStringLoop([i |-> 0, ix |-> pb1.end, pb |-> pb1], str, Len(str))
             IN  [st.pb EXCEPT !.end = st.ix]

\* the UTF-16 code units of a code point
Utf16OfCodePoint(cp) ==
    IF cp < 65536 THEN <<cp>>
    ELSE <<55296 + ((cp - 65536) \div 1024), 56320 + ((cp - 65536) % 1024)>>

IsCont(b) == b # Absent /\ b >= 128 /\ b <= 191

\* Node's own UTF-8 decoder (Buffer.toString): an ill-formed sequence is replaced by one
\* U+FFFD for its maximal well-formed prefix, and decoding resumes right after it
nativeDecodeStep(st, bs) ==
    IF st.i > Len(bs) THEN st
    ELSE LET b    == bs[st.i]
             at(k) == IF st.i + k <= Len(bs) THEN bs[st.i + k] ELSE Absent
             need == IF b >= 194 /\ b <= 223 THEN 1
                     ELSE IF b >= 224 /\ b <= 239 THEN 2
                     ELSE IF b >= 240 /\ b <= 244 THEN 3 ELSE 0
             lo   == IF b = 224 THEN 160 ELSE IF b = 240 THEN 144 ELSE 128
             hi   == IF b = 237 THEN 159 ELSE IF b = 244 THEN 143 ELSE 191
             ok1  == at(1) # Absent /\ at(1) >= lo /\ at(1) <= hi
             ok2  == ok1 /\ IsCont(at(2))
             ok3  == ok2 /\ IsCont(at(3))
             bad  == [i |-> st.i + 1, str |-> Append(st.str, 65533)]
         IN  IF b < 128 THEN [i |-> st.i + 1, str |-> Append(st.str, b)]
             ELSE IF need = 0 THEN bad
             ELSE IF need = 1 THEN
                 (IF ok1 THEN [i |-> st.i + 2, str |-> Append(st.str, (b % 32) * 64 + (at(1) % 64))]
                  ELSE bad)
             ELSE IF need = 2 THEN
                 (IF ok2 THEN [i |-> st.i + 3,
                               str |-> Append(st.str, (b % 16) * 4096 + (at(1) % 64) * 64 + (at(2) % 64))]
                  ELSE IF ok1 THEN [i |-> st.i + 2, str |-> Append(st.str, 65533)]
                  ELSE bad)
             ELSE
                 (IF ok3 THEN [i |-> st.i + 4,
                               str |-> st.str \o Utf16OfCodePoint((b % 8) * 262144 + (at(1) % 64) * 4096
                                                                  + (at(2) % 64) * 64 + (at(3) % 64))]
                  ELSE IF ok2 THEN [i |-> st.i + 3, str |-> Append(st.str, 65533)]
                  ELSE IF ok1 THEN [i |-> st.i + 2, str |-> Append(st.str, 65533)]
                  ELSE bad)

RECURSIVE nativeDecodeLoop(_, _, _)
nativeDecodeLoop(st, bs, n) ==
    IF n <= 0 THEN st
    ELSE IF n = 1 THEN nativeDecodeStep(st, bs)
    ELSE LET half == nativeDecodeLoop(st, bs, n \div 2)
         IN  IF half.i > Len(bs) THEN half ELSE nativeDecodeLoop(half, bs, n - n \div 2)

\* buf.toString(undefined, from, to)
bufToString(pb, from, to) ==
    LET bs == SubSeq(pb.buf, from + 1, IF to > Len(pb.buf) THEN Len(pb.buf) ELSE to)
    IN  nativeDecodeLoop([i |-> 1, str |-> <<>>], bs, Len(bs)).str

shiftStringStep(st, pb, bound) ==
    IF st.i >= bound THEN st
    ELSE LET ch  == BufGet(pb, st.i)
             ch2 == BufGet(pb, st.i + 1)
             ch3 == BufGet(pb, st.i + 2)
             ch4 == BufGet(pb, st.i + 3)
             c2  == BitAnd(RawToInt32(ch2), 192) = 128
             c3  == BitAnd(RawToInt32(ch3), 192) = 128
             c4  == BitAnd(RawToInt32(ch4), 192) = 128
             codepoint == Shl(BitAnd(RawToInt32(ch), 7), 18) + Shl(BitAnd(RawToInt32(ch2), 63), 12)
                          + Shl(BitAnd(RawToInt32(ch3), 63), 6) + BitAnd(RawToInt32(ch4), 63)
             bad == [i |-> st.i + 1, str |-> Append(st.str, 65533)]
         IN  IF ch # Absent /\ ch < 128 THEN [i |-> st.i + 1, str |-> Append(st.str, ch)]
             ELSE IF ch # Absent /\ ch < 192 THEN bad
             ELSE IF ch # Absent /\ ch < 224 THEN
                 (IF st.i + 1 < bound /\ c2
                  THEN [i |-> st.i + 2,
                        str |-> Append(st.str, Shl(BitAnd(ch, 31), 6) + BitAnd(ch2, 63))]
                  ELSE bad)
             ELSE IF ch # Absent /\ ch < 240 THEN
                 (IF st.i + 2 < bound /\ c2 /\ c3
                  THEN [i |-> st.i + 3,
                        str |-> Append(st.str, Shl(BitAnd(ch, 15), 12) + Shl(BitAnd(ch2, 63), 6)
                                               + BitAnd(ch3, 63))]
                  ELSE bad)
             ELSE IF ch # Absent /\ ch < 248 THEN
                 (IF st.i + 3 < bound /\ c2 /\ c3 /\ c4
                  THEN [i |-> st.i + 4,
                        str |-> st.str \o <<(55296 + Sar(codepoint - 65536, 10)) % 65536,
                                           (56320 + BitAnd(codepoint - 65536, 1023)) % 65536>>]
                  ELSE bad)
             ELSE bad

RECURSIVE shiftStringLoop(_, _, _, _)
shiftStringLoop(st, pb, bound, n) ==
    IF n <= 0 THEN st
    ELSE IF n = 1 THEN shiftStringStep(st, pb, bound)
    ELSE LET half == shiftStringLoop(st, pb, bound, n \div 2)
         IN  IF half.i >= bound THEN half ELSE shiftStringLoop(half, pb, bound, n - n \div 2)

\* len: an integer
shiftString(pb, len) ==
    IF len > 100
    THEN [v |-> Str(bufToString(pb, pb.pos, pb.pos + len)), pb |-> [pb EXCEPT !.pos = pb.pos + len]]
    ELSE [v  |-> Str(shiftStringLoop([i |-> pb.pos, str |-> <<>>], pb, pb.pos + len, len).str),
          pb |-> [pb EXCEPT !.pos = pb.pos + len]]

pushBytes(pb, bs) ==
    LET g == _growBuf(pb, Len(bs) + 1)
    IN  [BufSetAll(g, g.end, bs) EXCEPT !.end = g.end + Len(bs)]

\* mutation of shiftBytes: the bytes are returned and pos stays
shiftBytes_peek(pb, len) ==
    [v  |-> Bytes(SubSeq(pb.buf, pb.pos + 1,
                         IF pb.pos + len > Len(pb.buf) THEN Len(pb.buf) ELSE pb.pos + len)),
     pb |-> pb]

shiftBytes(pb, len) ==
    [v  |-> Bytes(SubSeq(pb.buf, pb.pos + 1,
                         IF pb.pos + len > Len(pb.buf) THEN Len(pb.buf) ELSE pb.pos + len)),
     pb |-> [pb EXCEPT !.pos = pb.pos + len]]

(***************************************************************************)
(* bjson.js: encode.                                                       *)
(***************************************************************************)
\* mutation of encodeLenCode: the length bytes least significant first
encodeLenCode_le(pb, len, typeB) ==
    IF len < 256 THEN push(pb, <<typeB, len>>)
    ELSE IF len < 65536 THEN push(pb, <<typeB + 1, len, Sar(len, 8)>>)
    ELSE push(pb, <<typeB + 2, len, Sar(len, 8), Sar(len, 16), Sar(len, 24)>>)

encodeLenCode(pb, len, typeB) ==
    IF len < 256 THEN push(pb, <<typeB, len>>)
    ELSE IF len < 65536 THEN push(pb, <<typeB + 1, Sar(len, 8), len>>)
    ELSE push(pb, <<typeB + 2, Sar(len, 24), Sar(len, 16), Sar(len, 8), len>>)

encodeType(pb, len, typeI, typeB) ==
    IF len <= MASK_SHORTLEN THEN push(pb, <<typeI + len>>)
    ELSE encodeLenCode(pb, len, typeB)

\* mutation of RecipIsNegInfinity: the test for -0 left out
RecipIsNegInfinity_never(d) == FALSE

\* 1/item === -Infinity: item is -0, or so small a negative number that 1/item
\* overflows (a magnitude of at most 2^-1024, which is subnormal)
RecipIsNegInfinity(d) ==
    /\ d.s = 1 /\ d.e = 0
    /\ d.m[1] = 0
    /\ (d.m[2] = 0 \/ SubSeq(d.m, 3, 52) = Zeros(50))

encodeNumber(pb, item) ==
    IF ~NumStrictEq(FromInt(NumToInt32(item)), item) \/ RecipIsNegInfinity(item)
    THEN appendDoubleBE(append(reserve(pb, 10), <<T_FLOAT64>>), item)
    ELSE IF NumLessEq(FromInt(-IMMED_RANGE), item) /\ NumLess(item, FromInt(IMMED_RANGE))
    THEN push(pb, <<T_INTI + BitAnd(NumToInt32(item), 63)>>)
    ELSE LET neg   == NumLess(item, PosZero)
             mag   == IF neg THEN Negate(item) ELSE item
             typeB == IF neg THEN T_NEGINTB ELSE T_UINTB
             m32   == NumToInt32(mag)
             msb   == NumDivPow2(mag, 32)
             m32h  == NumToInt32(msb)
         IN  IF NumLessEq(mag, FromInt(65535))
             THEN (IF BitAnd(m32, 65280) = 0 THEN push(pb, <<typeB, m32>>)
                   ELSE push(pb, <<typeB + 1, Sar(m32, 8), m32>>))
             ELSE IF NumLess(msb, FromInt(1))
             THEN push(pb, <<typeB + 2, Sar(m32, 24), Sar(m32, 16), Sar(m32, 8), m32>>)
             ELSE push(push(pb, <<typeB + 3, Sar(m32h, 24), Sar(m32h, 16), Sar(m32h, 8), m32h>>),
                       <<Sar(m32, 24), Sar(m32, 16), Sar(m32, 8), m32>>)

encodeString(pb, str) ==
    LET len == byteLength(str)
    IN  pushString(encodeType(pb, len, T_STRINGI, T_STRINGB), str, len)

encodeBytes(pb, bs) ==
    pushBytes(encodeType(pb, Len(bs), T_BYTESI, T_BYTESB), bs)

HasKey(pairs, key) == \E i \in 1..Len(pairs) : pairs[i][1] = key

CONSTRUCTOR == <<99, 111, 110, 115, 116, 114, 117, 99, 116, 111, 114>>   \* "constructor"

RECURSIVE encodeItem(_, _), encodeElements(_, _, _), encodePairs(_, _, _)

\* one turn of for (i = 0; i < len; i++) encodeItem(buf, item[i])
\* item[i]: undefined where the array has a hole
ElementAt(elems, i) == IF elems[i + 1].t = "hole" THEN Undefined ELSE elems[i + 1]

\* mutation of encodeElementsStep: a hole is skipped, as a missing property is
encodeElementsStep_skip(st, elems) ==
    IF st.i >= Len(elems) THEN st
    ELSE [i  |-> st.i + 1,
          pb |-> IF elems[st.i + 1].t = "hole" THEN st.pb
                 ELSE encodeItem(st.pb, elems[st.i + 1])]

encodeElementsStep(st, elems) ==
    IF st.i >= Len(elems) THEN st
    ELSE [i |-> st.i + 1, pb |-> encodeItem(st.pb, ElementAt(elems, st.i))]

encodeElements(st, elems, n) ==
    IF n <= 0 THEN st
    ELSE IF n = 1 THEN encodeElementsStep(st, elems)
    ELSE LET half == encodeElements(st, elems, n \div 2)
         IN  IF half.i >= Len(elems) THEN half ELSE encodeElements(half, elems, n - n \div 2)

\* one turn of the loop over the keys: encodeString(buf, key), encodeItem(buf, item[key])
encodePairsStep(st, pairs) ==
    IF st.i >= Len(pairs) THEN st
    ELSE [i  |-> st.i + 1,
          pb |-> encodeItem(encodeString(st.pb, pairs[st.i + 1][1]), pairs[st.i + 1][2])]

encodePairs(st, pairs, n) ==
    IF n <= 0 THEN st
    ELSE IF n = 1 THEN encodePairsStep(st, pairs)
    ELSE LET half == encodePairs(st, pairs, n \div 2)
         IN  IF half.i >= Len(pairs) THEN half ELSE encodePairs(half, pairs, n - n \div 2)

encodeArray(pb, elems) ==
    encodeElements([i |-> 0, pb |-> encodeType(pb, Len(elems), T_ARRAYI, T_ARRAYB)],
                   elems, Len(elems)).pb

\* the keys are strings: encodeItem(buf, key) is encodeString(buf, key)
encodeObject(pb, pairs) ==
    encodePairs([i |-> 0, pb |-> encodeType(pb, Len(pairs), T_OBJECTI, T_OBJECTB)],
                pairs, Len(pairs)).pb

\* mutation of HasToJSON: toJSON is never looked for
HasToJSON_never(v) == FALSE

\* typeof item.toJSON === 'function': a Buffer inherits one; the sequences and the
\* mappings of this model have none
HasToJSON(v) ==
    CASE v.t = "object" -> v.toJSON.t # "none" [] v.t = "Buffer" -> TRUE [] OTHER -> FALSE

\* item.constructor; an own property named constructor hides the inherited one
ConstructorOf(v) ==
    CASE v.t = "object" -> v.ctor
      [] v.t = "Object" -> IF HasKey(v.p, CONSTRUCTOR) THEN "own" ELSE "Object"
      [] OTHER -> v.t

ElementsOf(v) == IF v.t = "Array" THEN v.a ELSE v.own
PairsOf(v) == IF v.t = "Object" THEN v.p ELSE v.own

encodeItem(pb, v) ==
    CASE v.t = "boolean" -> push(pb, <<IF v.b THEN T_TRUE ELSE T_FALSE>>)
      [] v.t = "number"  -> encodeNumber(pb, v)
      [] v.t = "string"  -> encodeString(pb, v.u)
      [] v.t = "null"    -> push(pb, <<T_NULL>>)
      [] IsObject(v) ->
            IF HasToJSON(v) /\ ConstructorOf(v) # "Buffer" THEN encodeItem(pb, v.toJSON)
            ELSE CASE ConstructorOf(v) = "Object" ->
                        encodePairs([i |-> 0, pb |-> encodeType(pb, Len(PairsOf(v)), T_OBJECTI, T_OBJECTB)],
                                    PairsOf(v), Len(PairsOf(v))).pb
                   [] ConstructorOf(v) = "Array"  -> encodeArray(pb, ElementsOf(v))
                   [] ConstructorOf(v) = "Buffer" -> encodeBytes(pb, v.bytes)
                   [] ConstructorOf(v) \in {"Boolean", "Number", "String"} ->
                        encodeItem(pb, v.valueOf)
                   [] OTHER -> encodeObject(pb, PairsOf(v))
      [] OTHER           -> push(pb, <<T_UNDEFINED>>)   \* undefined, function, symbol, bigint

encodeBuf(v) == encodeItem(PushBuffer(NoBytes), v)

encode(v) == slice(encodeBuf(v), 0, 0)

(***************************************************************************)
(* bjson.js: decode.  A result is [ok, v, pb]: the value returned, or with *)
(* ok = FALSE the Error thrown, and the buffer as the call left it.        *)
(***************************************************************************)
Returns(val, pb) == [ok |-> TRUE, v |-> val, pb |-> pb]
Throws(err, pb)  == [ok |-> FALSE, v |-> err, pb |-> pb]

NotSupported(type) == [t |-> "Error", message |-> "not supported", type |-> type]

Digit(c) == c >= 48 /\ c <= 57

\* a canonical array index: the decimal form of an integer in 0 .. 2^32-2
IsArrayIndex(k) ==
    /\ Len(k) >= 1 /\ Len(k) <= 10
    /\ \A i \in 1..Len(k) : Digit(k[i])
    /\ (Len(k) = 1 \/ k[1] # 48)
    /\ (Len(k) = 10 => BitsLess(k, <<52, 50, 57, 52, 57, 54, 55, 50, 57, 53>>))

IndexLess(a, b) == Len(a) < Len(b) \/ (Len(a) = Len(b) /\ BitsLess(a, b))

RECURSIVE DecimalDigits(_)
DecimalDigits(n) == IF n < 10 THEN <<48 + n>> ELSE Append(DecimalDigits(n \div 10), 48 + (n % 10))

\* the property key a decoded key value stands for in obj[key]
ToPropertyKey(v) ==
    CASE v.t = "string"    -> v.u
      [] v.t = "undefined" -> <<117, 110, 100, 101, 102, 105, 110, 101, 100>>
      [] v.t = "null"      -> <<110, 117, 108, 108>>
      [] v.t = "boolean"   -> IF v.b THEN <<116, 114, 117, 101>> ELSE <<102, 97, 108, 115, 101>>
      [] v.t = "number" /\ IsNaN(v) -> <<78, 97, 78>>
      [] v.t = "number" /\ IsIntegral(v) /\ NumStrictEq(FromInt(NumToInt32(v)), v) ->
            IF NumToInt32(v) = MinInt32 THEN <<45, 50, 49, 52, 55, 52, 56, 51, 54, 52, 56>>
            ELSE IF NumToInt32(v) < 0 THEN <<45>> \o DecimalDigits(-NumToInt32(v))
            ELSE DecimalDigits(NumToInt32(v))

PROTO == <<95, 95, 112, 114, 111, 116, 111, 95, 95>>   \* "__proto__"

\* obj[key] = val on an object made by {}: an existing property keeps its place, a new
\* array index goes among the indexes in ascending order, any other new key goes last;
\* __proto__ is the accessor inherited from Object.prototype, and no own property is made
ObjSet(pairs, key, val) ==
    LET n   == Len(pairs)
        at  == {i \in 1..n : pairs[i][1] = key}
        low == {i \in 1..n : IsArrayIndex(pairs[i][1]) /\ IndexLess(pairs[i][1], key)}
    IN  IF key = PROTO THEN pairs
        ELSE IF at # {} THEN [pairs EXCEPT ![MinOf(at)] = <<key, val>>]
        ELSE IF IsArrayIndex(key)
        THEN SubSeq(pairs, 1, Cardinality(low)) \o << <<key, val>> >>
             \o SubSeq(pairs, Cardinality(low) + 1, n)
        ELSE Append(pairs, <<key, val>>)

\* the integer a decoded length stands for (lengths are whole numbers below 2^31 here).
\* A length read past the end of the bytes is undefined or NaN: no loop over it runs and
\* nothing is read, as for 0; pos, NaN in the source from then on, stays past the end
LenOf(v) == ToInt32(v)

RECURSIVE decodeItem(_), decodeArrayLoop(_, _), decodeObjectLoop(_, _)

\* mutation of decodeArrayStep: an element that cannot be decoded is left undefined
decodeArrayStep_skip(st) ==
    IF ~st.ok THEN st
    ELSE LET r == decodeItem(st.pb)
         IN  [ok |-> TRUE, v |-> Append(st.v, IF r.ok THEN r.v ELSE Undefined), pb |-> r.pb]

decodeArrayStep(st) ==
    IF ~st.ok THEN st
    ELSE LET r == decodeItem(st.pb)
         IN  IF r.ok THEN [ok |-> TRUE, v |-> Append(st.v, r.v), pb |-> r.pb]
             ELSE r

decodeArrayLoop(st, n) ==
    IF n <= 0 THEN st
    ELSE IF n = 1 THEN decodeArrayStep(st)
    ELSE LET half == decodeArrayLoop(st, n \div 2)
         IN  IF ~half.ok THEN half ELSE decodeArrayLoop(half, n - n \div 2)

decodeArray(pb, len) ==
    LET r == decodeArrayLoop(Returns(<<>>, pb), len)
    IN  IF r.ok THEN Returns(Arr(r.v), r.pb) ELSE r

decodeObjectStep(st) ==
    IF ~st.ok THEN st
    ELSE LET k == decodeItem(st.pb)
         IN  IF ~k.ok THEN k
             ELSE LET r == decodeItem(k.pb)
                  IN  IF r.ok THEN [ok |-> TRUE, v |-> ObjSet(st.v, ToPropertyKey(k.v), r.v), pb |-> r.pb]
                      ELSE r

decodeObjectLoop(st, n) ==
    IF n <= 0 THEN st
    ELSE IF n = 1 THEN decodeObjectStep(st)
    ELSE LET half == decodeObjectLoop(st, n \div 2)
         IN  IF ~half.ok THEN half ELSE decodeObjectLoop(half, n - n \div 2)

decodeObject(pb, len) ==
    LET r == decodeObjectLoop(Returns(<<>>, pb), len)
    IN  IF r.ok THEN Returns(Obj(r.v), r.pb) ELSE r

decodeItem(pb0) ==
    LET t1   == shiftBE(pb0, 1)
        type == ToInt32(t1.v)
        pb   == t1.pb
        code == BitAnd(type, 63)
        neg(r) == Returns(IF r.v.t = "number" THEN Negate(r.v) ELSE NaN, r.pb)
        pos(r) == Returns(r.v, r.pb)
    IN  IF BitAnd(type, 128) = 0
        THEN IF BitAnd(type, 64) = 0
             THEN Returns(FromInt(Sar(Shl(BitAnd(type, 63), 26), 26)), pb)
             ELSE CASE code = 0  -> Returns(Null, pb)
                    [] code = 1  -> Returns(Undefined, pb)
                    [] code = 2  -> Returns(Bool(FALSE), pb)
                    [] code = 3  -> Returns(Bool(TRUE), pb)
                    [] code = 4  -> pos(shiftBE(pb, 1))
                    [] code = 5  -> pos(shiftBE(pb, 2))
                    [] code = 6  -> pos(shiftBE(pb, 4))
                    [] code = 7  -> pos(shiftBE(pb, 8))
                    [] code = 8  -> neg(shiftBE(pb, 1))
                    [] code = 9  -> neg(shiftBE(pb, 2))
                    [] code = 10 -> neg(shiftBE(pb, 4))
                    [] code = 11 -> neg(shiftBE(pb, 8))
                    [] code = 14 -> pos(shiftFloatBE(pb))
                    [] code = 15 -> pos(shiftDoubleBE(pb))
                    [] OTHER     -> Throws(NotSupported(type), pb)
        ELSE LET l == IF BitAnd(type, 64) # 0
                      THEN [v |-> FromInt(BitAnd(type, MASK_SHORTLEN)), pb |-> pb]
                      ELSE shiftBE(pb, 2 ^ BitAnd(type, MASK_BYTELEN))
                 kind == Sar(BitAnd(type, 48), 4)
             IN  CASE kind = 0 -> pos(shiftString(l.pb, LenOf(l.v)))
                   [] kind = 1 -> pos(shiftBytes(l.pb, LenOf(l.v)))
                   [] kind = 2 -> decodeArray(l.pb, LenOf(l.v))
                   [] kind = 3 -> decodeObject(l.pb, LenOf(l.v))

decodeBuf(bs) == decodeItem(PushBuffer(bs))

decode(bs) == decodeBuf(bs)

(***************************************************************************)
(* The values handed to encode.                                            *)
(***************************************************************************)
MaxInt32 == -(MinInt32 + 1)

Num(n) == FromInt(n)

\* every integer this close to zero is encoded
IntSpan == 40

\* the integers around the width boundaries of encodeNumber
BoundaryInts ==
    {MinInt32, MinInt32 + 1, -16777216, -65537, -65536, -65535, -257, -256, -255, -128,
     127, 128, 255, 256, 257, 32767, 32768, 65535, 65536, 65537, 16777215, 16777216,
     MaxInt32 - 1, MaxInt32}

Ints == (-IntSpan .. IntSpan) \cup BoundaryInts

Ones(k) == [i \in 1..k |-> 1]

\* numbers that are not 32-bit integers
Floats ==
    {NegZero, NaN, PosInf, NegInf,
     Dbl(0, 1023, <<1>> \o Zeros(51)),                    \* 1.5
     Dbl(1, 1023, <<1>> \o Zeros(51)),                    \* -1.5
     Dbl(0, 1022, Zeros(52)),                             \* 0.5
     Dbl(0, 1027, <<0, 0, 0, 0, 1>> \o Zeros(47)),        \* 16.5
     Dbl(0, 1054, Zeros(52)),                             \* 2^31
     Dbl(1, 1054, Zeros(30) \o <<1>> \o Zeros(21)),       \* -(2^31 + 1)
     Dbl(0, 1055, Zeros(52)),                             \* 2^32
     Dbl(0, 1055, Zeros(29) \o <<1, 0, 1>> \o Zeros(20)), \* 2^32 + 5
     Dbl(1, 1055, Zeros(31) \o <<1>> \o Zeros(20)),       \* -(2^32 + 1)
     Dbl(0, 1076, Zeros(52)),                             \* 2^53
     Dbl(0, 2046, Ones(52)),                              \* the largest double
     Dbl(0, 0, Zeros(51) \o <<1>>),                       \* the smallest subnormal
     Dbl(1, 0, Zeros(51) \o <<1>>),                       \* its negation
     Dbl(1, 0, <<1>> \o Zeros(51))}                       \* -2^-1023

\* n copies of c (\o makes it a tuple for TLC, whose Len is then not a conversion)
Rep(c, n) == [i \in 1..n |-> c] \o <<>>

\* text without lone surrogates: ASCII, 2- and 3-byte characters, a surrogate pair
\* (U+1F600), and strings on both sides of the 100-unit switch to Node's own codec
Texts ==
    {<<>>, <<97>>, <<97, 98, 99>>, <<233>>, <<8364>>, <<55357, 56832>>,
     <<97, 233, 8364, 55357, 56832, 122>>, <<0>>, <<127, 128, 2047, 2048, 65535>>,
     Rep(97, 15), Rep(97, 16), Rep(233, 8), Rep(97, 100), Rep(97, 101),
     Rep(8364, 101), Rep(97, 255), Rep(97, 256),
     Rep(97, 99) \o <<55357, 56832>>}

Blobs ==
    {<<>>, <<0>>, <<255, 0, 128>>, [i \in 1..15 |-> i], [i \in 1..16 |-> 255 - i],
     [i \in 1..256 |-> i - 1]}

KeyA == <<97>>
KeyB == <<98>>
KeyC == <<99>>
KeyD == <<100>>

Atoms ==
    {Null, Undefined, Bool(FALSE), Bool(TRUE)}
    \cup {Num(n) : n \in Ints} \cup Floats
    \cup {Str(u) : u \in Texts} \cup {Bytes(b) : b \in Blobs}

\* sequences and mappings of atoms; the keys of a mapping are in the order the
\* host enumerates them (array indexes first, ascending, then insertion order)
Flat ==
    {Arr(<<>>), Arr(<<Num(1)>>), Arr(<<Num(1), Str(KeyA), Null, Undefined, NegZero>>),
     Arr([i \in 1..16 |-> Num(i)]), Arr([i \in 1..17 |-> Str(<<96 + i>>)]),
     Obj(<<>>), Obj(<< <<KeyA, Num(1)>> >>),
     Obj(<< <<KeyA, Num(1)>>, <<KeyB, Dbl(0, 1024, <<0, 1>> \o Zeros(50))>>,
            <<KeyC, Bool(TRUE)>>, <<KeyD, Arr(<<>>)>> >>),
     Obj(<< <<KeyB, Num(2)>>, <<KeyA, Undefined>> >>),
     Obj(<< <<<<49>>, Num(1)>>, <<<<49, 48>>, Num(10)>>, <<KeyB, Num(2)>>, <<<<48, 49>>, Null>> >>),
     Obj(<< <<<<>>, Str(<<>>)>>, <<<<233, 55357, 56832>>, Bytes(<<1, 2>>)>> >>),
     Obj(<< <<CONSTRUCTOR, Num(5)>>, <<KeyA, Num(1)>> >>),
     Obj([i \in 1..16 |-> <<DecimalDigits(i), Num(i)>>]),
     Obj(<< <<PROTO, Num(5)>> >>),
     Obj(<< <<KeyA, Num(1)>>, <<PROTO, Obj(<< <<KeyB, Num(2)>> >>)>> >>)}

\* the deepest nesting of sequences and mappings
MaxDepth == 5

RECURSIVE Nest(_, _)
\* v wrapped d times, in a sequence and in a mapping by turns
Nest(v, d) ==
    IF d = 0 THEN v
    ELSE IF d % 2 = 1 THEN Arr(<<Num(d), Nest(v, d - 1)>>)
    ELSE Obj(<< <<KeyA, Nest(v, d - 1)>>, <<KeyB, Str(KeyB)>> >>)

Nested ==
    {Nest(v, d) : v \in {Num(300), Str(<<233>>), Arr(<<>>), Obj(<<>>), NaN}, d \in 1..MaxDepth}

\* what the host has and the format has not, alone, as elements and as values
Oddballs == {Function, Symbol, BigInt}

OddValues ==
    Oddballs
    \cup {Arr(<<x>>) : x \in Oddballs \cup {Undefined}}
    \cup {Obj(<< <<KeyA, x>> >>) : x \in Oddballs}
    \cup {Arr(<<Function, Symbol, BigInt, Undefined>>),
          Obj(<< <<KeyA, Function>>, <<KeyB, Symbol>>, <<KeyC, BigInt>>, <<KeyD, Undefined>> >>),
          Arr(<<Num(1), Function, Arr(<<Symbol>>)>>)}

\* sparse arrays: [1, , 3], new Array(2), and 17 elements the last of which is set
SparseValues ==
    {Arr(<<Num(1), Hole, Num(3)>>), Arr(<<Hole, Hole>>),
     Arr([i \in 1..17 |-> IF i = 17 THEN Str(KeyA) ELSE Hole] \o <<>>)}

\* "1970-01-01T00:00:00.000Z"
EPOCH == <<49, 57, 55, 48, 45, 48, 49, 45, 48, 49, 84, 48, 48, 58, 48, 48, 58, 48, 48, 46, 48, 48, 48, 90>>

\* new Date(0): its toJSON() returns the ISO text, its valueOf() the milliseconds
Date0 == Host("Date", Str(EPOCH), Num(0), <<>>)

\* objects with a toJSON method: a Date, an Error, a plain object, an array, one whose
\* toJSON() returns another such object, and ones whose toJSON() returns undefined or
\* a function
JsonValues ==
    {Date0,
     Host("Error", Obj(<< <<<<109>>, Str(KeyA)>> >>), Undefined, <<>>),
     Host("Object", Num(7), Undefined, << <<KeyA, Num(1)>> >>),
     Host("Array", Str(KeyA), Undefined, <<Num(1), Num(2)>>),
     Host("Object", Date0, Undefined, <<>>),
     Host("Object", Undefined, Undefined, << <<KeyA, Num(1)>> >>),
     Host("Other", Function, Undefined, <<>>),
     Host("Other", Arr(<<Date0, Null>>), Undefined, << <<KeyB, Num(2)>> >>)}

\* new Number(n), new Boolean(b), new String(s)
BoxedValues ==
    {Host("Number", NoJSON, x, <<>>) : x \in {Num(1234), Num(0), NegZero, Num(-12345), NaN,
                                              Dbl(0, 1023, <<0, 1>> \o Zeros(50))}}
    \cup {Host("Boolean", NoJSON, Bool(b), <<>>) : b \in BOOLEAN}
    \cup {Host("String", NoJSON, Str(u), <<>>) : u \in {<<>>, <<97, 98, 99>>, <<233>>}}

\* other objects: /foo/ with the properties a, b and c added, and objects inside
\* sequences and mappings
HostValues ==
    JsonValues \cup BoxedValues
    \cup {Host("RegExp", NoJSON, Undefined,
                << <<KeyA, Num(1)>>, <<KeyB, Dbl(0, 1024, <<0, 1>> \o Zeros(50))>>, <<KeyC, Str(<<99, 101, 101>>)>> >>),
          Host("Object", NoJSON, Undefined, << <<KeyA, Num(1)>> >>),
          Arr(<<Date0, Host("Number", NoJSON, Num(5), <<>>)>>),
          Obj(<< <<KeyA, Date0>>, <<KeyB, Host("Boolean", NoJSON, Bool(TRUE), <<>>)>> >>)}

Values == Atoms \cup Flat \cup Nested \cup OddValues \cup SparseValues \cup HostValues

(***************************************************************************)
(* The bytes a peer may send to decode.                                    *)
(***************************************************************************)
Kinds == {"Text", "Bytes", "Sequence", "Mapping"}

TypeI(kind) ==
    CASE kind = "Text" -> T_STRINGI [] kind = "Bytes" -> T_BYTESI
      [] kind = "Sequence" -> T_ARRAYI [] kind = "Mapping" -> T_OBJECTI

TypeB(kind) ==
    CASE kind = "Text" -> T_STRINGB [] kind = "Bytes" -> T_BYTESB
      [] kind = "Sequence" -> T_ARRAYB [] kind = "Mapping" -> T_OBJECTB

\* the encoded content of c characters, c bytes, c elements or c key/value pairs
Payload(kind, c) ==
    CASE kind = "Text"     -> [i \in 1..c |-> 97 + (i % 26)]
      [] kind = "Bytes"    -> [i \in 1..c |-> 200 + i]
      [] kind = "Sequence" -> [i \in 1..c |-> i % 64]
      [] kind = "Mapping"  -> FlatRange([i \in 1..c |-> <<T_STRINGI + 1, 97 + i, i % 64>>], 1, c)

\* the count c in a length field of w bytes, most significant byte first
LenField(c, w) == [k \in 1..w |-> (c \div (256 ^ (w - k))) % 256]

\* log2 of the width of a length field
LenBits(w) == CASE w = 1 -> 0 [] w = 2 -> 1 [] w = 4 -> 2

ImmWire(kind, c) == <<TypeI(kind) + c>> \o Payload(kind, c)

LenWire(kind, c, w) == <<TypeB(kind) + LenBits(w)>> \o LenField(c, w) \o Payload(kind, c)

\* the largest count sent in a length field
MaxCount == 17

LenWires ==
    {ImmWire(k, c) : k \in Kinds, c \in 0..MASK_SHORTLEN}
    \cup {LenWire(kw[1], c, kw[2]) : kw \in Kinds \X {1, 2, 4}, c \in 0..MaxCount}

\* 8-byte magnitudes: 0, 513, 2^32 - 1, 2^32, 2^53 - 1, 2^53, 2^53 + 1, 2^53 + 3,
\* 2^63, 2^64 - 1
Mags8 ==
    {Rep(0, 8), <<0, 0, 0, 0, 0, 0, 2, 1>>, <<0, 0, 0, 0, 255, 255, 255, 255>>,
     <<0, 0, 0, 1, 0, 0, 0, 0>>, <<0, 0, 1, 2, 3, 4, 5, 6>>,
     <<0, 31, 255, 255, 255, 255, 255, 255>>, <<0, 32, 0, 0, 0, 0, 0, 0>>,
     <<0, 32, 0, 0, 0, 0, 0, 1>>, <<0, 32, 0, 0, 0, 0, 0, 3>>,
     <<128, 0, 0, 0, 0, 0, 0, 0>>, Rep(255, 8)}

IntWires ==
    {<<T_UINTB + 3>> \o m : m \in Mags8} \cup {<<T_NEGINTB + 3>> \o m : m \in Mags8}
    \cup {<<T_UINTB, 200>>, <<T_UINTB + 1, 1, 0>>, <<T_UINTB + 2, 255, 255, 255, 255>>,
          <<T_NEGINTB, 0>>, <<T_NEGINTB + 1, 0, 5>>, <<T_NEGINTB + 2, 128, 0, 0, 1>>,
          <<T_FLOAT32, 63, 192, 0, 0>>, <<T_FLOAT32, 128, 0, 0, 1>>,
          <<T_FLOAT64, 127, 240, 0, 0, 0, 0, 0, 1>>}

\* the subtypes of the fixed-length regime that decodeItem has no case for
BadCodes == {12, 13} \cup (16 .. 63)

BadTag(code) == 64 + code

RECURSIVE WrapWire(_, _)
\* the item w at depth d, inside sequences and mappings by turns
WrapWire(w, d) ==
    IF d = 0 THEN w
    ELSE IF d % 2 = 1 THEN <<T_ARRAYI + 3, d>> \o WrapWire(w, d - 1) \o <<T_NULL>>
    ELSE <<T_OBJECTI + 2, T_STRINGI + 1, 97>> \o WrapWire(w, d - 1) \o <<T_STRINGI + 1, 98, T_TRUE>>

BadWires ==
    {<<BadTag(c), 1, 2, 3, 4>> : c \in BadCodes}
    \cup {WrapWire(<<BadTag(c), 1>>, d) : c \in {12, 13, 21, 63}, d \in 1..MaxDepth}
    \cup {WrapWire(<<T_OBJECTI + 1, BadTag(21), 1>>, d) : d \in 0..MaxDepth}

GoodWires == {WrapWire(w, d) : w \in {<<T_UINTB + 3, 0, 0, 0, 0, 0, 0, 2, 1>>, <<5>>}, d \in 1..MaxDepth}

\* tags of the length regime outside the table: bits 2-3 set (spare 1..3), or the
\* width selector 3 and a length field of 8 bytes
SpareWire(kind, spare, c, w) ==
    <<TypeB(kind) + 4 * spare + LenBits(w)>> \o LenField(c, w) \o Payload(kind, c)

Wide8Wire(kind, spare, c) ==
    <<TypeB(kind) + 4 * spare + 3>> \o Rep(0, 7) \o <<c>> \o Payload(kind, c)

SpareWires ==
    {SpareWire(kw[1], kw[2], c, kw[3]) : kw \in Kinds \X (1 .. 3) \X {1, 2, 4}, c \in {0, 2}}
    \cup {Wide8Wire(ks[1], ks[2], c) : ks \in Kinds \X (0 .. 3), c \in {0, 2}}

\* bytes cut short: no tag at all, a magnitude, a length field, a text, a blob, the
\* elements of a sequence or the pairs of a mapping not all there
TruncWires ==
    {<<>>, <<T_UINTB>>, <<T_UINTB + 1, 1>>, <<T_UINTB + 2, 1, 2>>, <<T_UINTB + 2>>,
     <<T_UINTB + 3, 0, 0, 2>>, <<T_NEGINTB>>, <<T_NEGINTB + 1, 1>>,
     <<T_STRINGB>>, <<T_STRINGB + 1, 0>>, <<T_BYTESB + 2>>,
     <<T_STRINGI + 3, 97>>, <<T_BYTESI + 3, 1>>, <<T_ARRAYI + 2, 1>>,
     <<T_OBJECTI + 1, T_STRINGI + 1, 97>>, <<T_OBJECTI + 1>>, <<T_ARRAYI + 2, T_STRINGB>>}

Wires == LenWires \cup IntWires \cup BadWires \cup GoodWires \cup SpareWires \cup TruncWires

\* what encode gives for the values
EncodedWires == {encode(v) : v \in Values}

\* bytes behind an item: a zero, an item of one byte, two bytes that start a blob, a text
Tails == {<<0>>, <<T_NULL>>, <<255, 1>>, <<T_STRINGI + 1, 97>>}

\* an encoded value with bytes behind it
TrailWires == {w \o t : w \in EncodedWires, t \in Tails}

(***************************************************************************)
(* The caller: it encodes a value or receives bytes, decodes the bytes,    *)
(* and starts over.                                                        *)
(***************************************************************************)
NoValue  == [t |-> "none"]
NoResult == [ok |-> FALSE, v |-> NoValue]
NoOp     == [name |-> "none", n |-> 0, at |-> 0, args |-> <<>>, before |-> PushBuffer(NoBytes), k |-> 0,
             clean |-> FALSE]

Init ==
    /\ pc = "idle"
    /\ arg = NoValue
    /\ wbuf = PushBuffer(NoBytes)
    /\ wire = NoBytes
    /\ result = NoResult
    /\ rbuf = PushBuffer(NoBytes)
    /\ pbuf = PushBuffer(NoBytes)
    /\ written = NoBytes
    /\ op = NoOp
    /\ pure = FALSE

\* bytes = bjson.encode(v)
Encode(v) ==
    /\ pc = "idle"
    /\ pc' = "encoded"
    /\ arg' = v
    /\ wbuf' = encodeBuf(v)
    /\ wire' = slice(wbuf', 0, 0)
    /\ UNCHANGED <<result, rbuf>>
    /\ UNCHANGED bufvars

\* bytes arrive from a peer
Receive(bs) ==
    /\ pc = "idle"
    /\ pc' = "received"
    /\ wire' = bs
    /\ UNCHANGED <<arg, wbuf, result, rbuf>>
    /\ UNCHANGED bufvars

\* what the caller of decode sees: the returned value, or the error thrown
Outcome(r) == [ok |-> r.ok, v |-> r.v]

\* bjson.decode(bytes)
Decode ==
    /\ pc \in {"encoded", "received"}
    /\ pc' = "decoded"
    /\ result' = Outcome(decodeBuf(wire))
    /\ rbuf' = decodeBuf(wire).pb
    /\ UNCHANGED <<arg, wbuf, wire>>
    /\ UNCHANGED bufvars

\* the caller is done with the values
Reset ==
    /\ pc # "idle"
    /\ pc' = "idle"
    /\ arg' = NoValue
    /\ wbuf' = PushBuffer(NoBytes)
    /\ wire' = NoBytes
    /\ result' = NoResult
    /\ rbuf' = PushBuffer(NoBytes)
    /\ UNCHANGED bufvars

Next ==
    \/ \E v \in Values : Encode(v)
    \/ \E bs \in Wires \cup TrailWires : Receive(bs)
    \/ Decode
    \/ Reset

Spec == Init /\ [][Next]_vars

(***************************************************************************)
(* The caller of the length forms: it encodes texts, blobs, sequences and  *)
(* mappings whose counts lie on both sides of each length form.            *)
(***************************************************************************)
\* every count up to LenSpan is encoded
LenSpan == 20

Counts == (0 .. LenSpan) \cup {255, 256, 257, 65535, 65536}

\* three letters for each i below 2^18, all different: the keys of a large mapping
KeyOf(i) == <<64 + (i % 64), 64 + ((i \div 64) % 64), 64 + (i \div 4096)>>

LenValues ==
    {Str(Rep(97, c)) : c \in Counts}
    \cup {Str(Rep(233, c)) : c \in (0 .. LenSpan) \cup {127, 128, 32767, 32768}}
    \cup {Bytes(Rep(7, c)) : c \in Counts}
    \cup {Arr(Rep(Null, c)) : c \in Counts}
    \cup {Obj([i \in 1..c |-> <<KeyOf(i), Bool(TRUE)>>] \o <<>>) : c \in Counts \ {65535}}

NextLen ==
    \/ \E v \in LenValues : Encode(v)
    \/ Reset

SpecLen == Init /\ [][NextLen]_vars

(***************************************************************************)
(* The caller of PushBuffer: it makes one, empty or over bytes it has, and *)
(* calls push, pushBytes, append, poke, reserve, shiftBE(1), slice on it.  *)
(***************************************************************************)
\* the most bytes written to one PushBuffer
MaxWritten == 780

\* the most arguments of one push or append
MaxArgs == 2

\* the calls made on a PushBuffer other than pushes to one created empty
MaxOps == 3

\* the argument written at offset i: an int32 below 0 or above 255 for most i
ArgAt(i) == i * 97 - 500

ArgsAt(end, k) == [j \in 1..k |-> ArgAt(end + j)] \o <<>>

\* this.buf is a Buffer, and not undefined as it is in a PushBuffer created empty
\* until _growBuf allocates one
HasBuf(pb) == pb.size > 0

\* the call made: its name and arguments, the PushBuffer it was made on, the number of
\* calls so far, and whether they all were new, push and pushBytes
Did(name, n, at, args) ==
    [name |-> name, n |-> n, at |-> at, args |-> args, before |-> pbuf,
     k |-> IF op.k > MaxOps THEN op.k ELSE op.k + 1,
     clean |-> name = "new" \/ (op.clean /\ name \in {"push", "pushBytes"})]

\* new PushBuffer() or new PushBuffer(bytes)
Create(bs) ==
    /\ op.name = "none"
    /\ pbuf' = PushBuffer(bs)
    /\ written' = bs
    /\ pure' = (bs = NoBytes)
    /\ op' = Did("new", 0, 0, bs)
    /\ UNCHANGED codecvars

\* pbuf.push(byte, ...)
Push(k) ==
    /\ op.name # "none"
    /\ pure \/ op.k <= MaxOps
    /\ pbuf.end + k <= MaxWritten
    /\ pbuf' = push(pbuf, ArgsAt(pbuf.end, k))
    /\ written' = written \o [j \in 1..k |-> ArgAt(pbuf.end + j) % 256]
    /\ op' = Did("push", k, pbuf.end, ArgsAt(pbuf.end, k))
    /\ UNCHANGED pure
    /\ UNCHANGED codecvars

\* pbuf.append(byte, ...); on a PushBuffer that has no Buffer yet it throws a TypeError
AppendBytes(k) ==
    /\ op.name # "none" /\ op.k <= MaxOps
    /\ HasBuf(pbuf)
    /\ pbuf.end + k <= MaxWritten
    /\ pbuf' = append(pbuf, ArgsAt(pbuf.end, k))
    /\ written' = written \o [j \in 1..k |-> ArgAt(pbuf.end + j) % 256]
    /\ op' = Did("append", k, pbuf.end, ArgsAt(pbuf.end, k))
    /\ pure' = FALSE
    /\ UNCHANGED codecvars

\* pbuf.poke(at, byte, ...); on a PushBuffer that has no Buffer yet it throws a TypeError
Poke(at, args) ==
    /\ op.name # "none" /\ op.k <= MaxOps
    /\ HasBuf(pbuf)
    /\ at >= 0
    /\ pbuf' = poke(pbuf, at, args)
    /\ op' = Did("poke", Len(args), at, args)
    /\ pure' = FALSE
    /\ UNCHANGED written
    /\ UNCHANGED codecvars

\* pbuf.reserve(n)
Reserve(n) ==
    /\ op.name # "none" /\ op.k <= MaxOps
    /\ pbuf' = reserve(pbuf, n)
    /\ op' = Did("reserve", n, pbuf.end, <<>>)
    /\ pure' = FALSE
    /\ UNCHANGED written
    /\ UNCHANGED codecvars

\* pbuf.shiftBE(1), by a reader that stops at end
Shift ==
    /\ op.name # "none" /\ op.k <= MaxOps
    /\ pbuf.pos < pbuf.end
    /\ pbuf' = shiftBE(pbuf, 1).pb
    /\ op' = Did("shiftBE", 1, pbuf.pos, <<>>)
    /\ pure' = FALSE
    /\ UNCHANGED written
    /\ UNCHANGED codecvars

\* pbuf.pushBytes(bytes)
PushBytes(k) ==
    /\ op.name # "none" /\ op.k <= MaxOps
    /\ pbuf.end + k <= MaxWritten
    /\ pbuf' = pushBytes(pbuf, [j \in 1..k |-> ArgAt(pbuf.end + j) % 256])
    /\ written' = written \o [j \in 1..k |-> ArgAt(pbuf.end + j) % 256]
    /\ op' = Did("pushBytes", k, pbuf.end, [j \in 1..k |-> ArgAt(pbuf.end + j) % 256])
    /\ pure' = FALSE
    /\ UNCHANGED codecvars

\* pbuf.slice(base, bound)
Slice(base, bound) ==
    /\ op.name # "none" /\ op.k <= MaxOps
    /\ HasBuf(pbuf)
    /\ 0 <= base /\ base <= bound /\ bound <= pbuf.end
    /\ result' = [ok |-> TRUE, v |-> Bytes(slice(pbuf, base, bound))]
    /\ op' = Did("slice", bound, base, <<>>)
    /\ pure' = FALSE
    /\ UNCHANGED <<pc, arg, wbuf, wire, rbuf, pbuf, written>>

\* the bytes a PushBuffer is made over: none, 3, and more than the first allocation holds
MadeOver == {NoBytes, <<1, 2, 3>>, Rep(9, 260)}

NextBuf ==
    \/ \E bs \in MadeOver : Create(bs)
    \/ \E k \in 1 .. MaxArgs : Push(k)
    \/ \E k \in 1 .. MaxArgs : AppendBytes(k)
    \/ \E at \in {0, 1, pbuf.end, pbuf.size - 1, pbuf.size}, args \in {<<511>>, <<-1, 256>>} : Poke(at, args)
    \/ \E n \in {1, 10, 300} : Reserve(n)
    \/ Shift
    \/ \E k \in 0 .. MaxArgs : PushBytes(k)
    \/ \E base \in {0, 1, pbuf.end}, bound \in {0, 1, 2, pbuf.end} : Slice(base, bound)

SpecBuf == Init /\ [][NextBuf]_vars

(***************************************************************************)
(* The reader and writer of integers: it loads bytes into a PushBuffer and *)
(* reads them with shiftBE and shiftLE, stopping at end, or writes varints *)
(* with pushVarint and reads each back with shiftVarint.                   *)
(***************************************************************************)
\* the most varints written to one PushBuffer
MaxVarints == 2

\* the call made on a PushBuffer, and the PushBuffer it was made on
Called(name, n, pb) ==
    [name |-> name, n |-> n, at |-> pb.pos, args |-> <<>>, before |-> pb, k |-> op.k + 1,
     clean |-> FALSE]

\* the bytes read: the ends and the middle of 8 bytes take the values at the edges of
\* a byte, and 2^53 - 1, 2^53 and 2^53 + 1 are there in both byte orders
IntBytes ==
    {[k \in 1..8 |-> IF k = 1 THEN x ELSE IF k = 8 THEN y ELSE m] \o <<>> :
        x \in {0, 1, 127, 128, 255}, y \in {0, 1, 127, 128, 255}, m \in {0, 128, 255}}
    \cup {<<1, 2, 3, 4, 5, 6, 7, 8, 9, 10, 11, 12, 13, 14, 15>>,
          <<0, 31, 255, 255, 255, 255, 255, 255>>, <<255, 255, 255, 255, 255, 255, 31, 0>>,
          <<0, 32, 0, 0, 0, 0, 0, 0>>, <<0, 0, 0, 0, 0, 0, 32, 0>>,
          <<0, 32, 0, 0, 0, 0, 0, 1>>, <<1, 0, 0, 0, 0, 0, 32, 0>>}

\* the widths read
Widths == {1, 2, 3, 4, 5, 8}

\* the numbers written as varints: the edges of 1, 2, 3 and 5 groups of 7 bits, bit 31,
\* 0x102030405060, and the edges of 2^53
VarValues ==
    {FromInt(n) : n \in {0, 1, 127, 128, 129, 300, 16383, 16384, 2097151, 2097152, MaxInt32}}
    \cup {RoundToDouble(0, b) : b \in {<<1>> \o Zeros(31), Ones(32), <<1>> \o Zeros(34) \o <<1>>,
                                        Bits(4128, 16) \o Bits(12352, 16) \o Bits(20576, 16),
                                        <<1>> \o Zeros(48), Ones(49), <<1>> \o Zeros(51) \o <<1>>,
                                        Ones(53)}}

\* rbuf = new PushBuffer(bytes)
Load(bs) ==
    /\ pc = "idle"
    /\ pc' = "loaded"
    /\ wire' = bs
    /\ rbuf' = PushBuffer(bs)
    /\ op' = Called("new", 0, rbuf)
    /\ UNCHANGED <<arg, wbuf, result, pbuf, written, pure>>

\* rbuf.shiftBE(n)
ShiftBE(n) ==
    /\ pc \in {"loaded", "shifted"}
    /\ rbuf.pos + n <= rbuf.end
    /\ pc' = "shifted"
    /\ result' = [ok |-> TRUE, v |-> shiftBE(rbuf, n).v]
    /\ rbuf' = shiftBE(rbuf, n).pb
    /\ op' = Called("shiftBE", n, rbuf)
    /\ UNCHANGED <<arg, wbuf, wire, pbuf, written, pure>>

\* rbuf.shiftLE(n)
ShiftLE(n) ==
    /\ pc \in {"loaded", "shifted"}
    /\ rbuf.pos + n <= rbuf.end
    /\ pc' = "shifted"
    /\ result' = [ok |-> TRUE, v |-> shiftLE(rbuf, n).v]
    /\ rbuf' = shiftLE(rbuf, n).pb
    /\ op' = Called("shiftLE", n, rbuf)
    /\ UNCHANGED <<arg, wbuf, wire, pbuf, written, pure>>

\* wbuf.pushVarint(v), on a PushBuffer created empty whose varints have all been read
PushVarint(v) ==
    /\ pc \in {"idle", "read"}
    /\ op.k < 2 * MaxVarints
    /\ pc' = "pushed"
    /\ arg' = v
    /\ wbuf' = pushVarint(wbuf, v)
    /\ wire' = slice(wbuf', 0, 0)
    /\ op' = Called("pushVarint", 0, wbuf)
    /\ UNCHANGED <<result, rbuf, pbuf, written, pure>>

\* wbuf.shiftVarint()
ShiftVarint ==
    /\ pc = "pushed"
    /\ pc' = "read"
    /\ result' = [ok |-> TRUE, v |-> shiftVarint(wbuf).v]
    /\ wbuf' = shiftVarint(wbuf).pb
    /\ op' = Called("shiftVarint", 0, wbuf)
    /\ UNCHANGED <<arg, wire, rbuf, pbuf, written, pure>>

\* the caller drops its buffers
Drop ==
    /\ pc # "idle"
    /\ pc' = "idle"
    /\ arg' = NoValue
    /\ wbuf' = PushBuffer(NoBytes)
    /\ wire' = NoBytes
    /\ result' = NoResult
    /\ rbuf' = PushBuffer(NoBytes)
    /\ op' = NoOp
    /\ UNCHANGED <<pbuf, written, pure>>

NextInt ==
    \/ \E bs \in IntBytes : Load(bs)
    \/ \E n \in Widths : ShiftBE(n)
    \/ \E n \in Widths : ShiftLE(n)
    \/ \E v \in VarValues : PushVarint(v)
    \/ ShiftVarint
    \/ Drop

SpecInt == Init /\ [][NextInt]_vars

(***************************************************************************)
(* The writer and reader of strings: it measures a string with byteLength  *)
(* or guessByteLength and writes it with pushString or encodeString to a   *)
(* PushBuffer created empty, fresh or filled up to its last byte but one,  *)
(* or it loads bytes and reads them with shiftString.                      *)
(***************************************************************************)
\* code units at the edges of the 1-, 2- and 3-byte ranges and of the surrogates
Units == {65, 127, 128, 2047, 2048, 55295, 55296, 56319, 56320, 57343, 57344, 65535}

\* a letter, the first and last leading and the first and last trailing surrogate
Surrogates == {65, 55296, 56319, 56320, 57343}

ShortStrings ==
    {<<>>} \cup {<<a>> : a \in Units} \cup {<<a, b>> : a \in Units, b \in Units}
    \cup {<<a, b, c>> : a \in Surrogates, b \in Surrogates, c \in Surrogates}

\* strings around the 100 units (and the 100 bytes guessed) at which pushString and
\* byteLength switch to Node's own codec
LongStrings ==
    {Rep(120, n) \o s : n \in {98, 99, 100},
                        s \in {<<a>> : a \in Units} \cup {<<a, b>> : a \in Surrogates, b \in Surrogates}}
    \cup {Rep(2048, 33), Rep(2048, 34), Rep(55296, 34), Rep(56320, 50)}

Strings == ShortStrings \cup LongStrings

\* bytes at the edges of the ASCII, continuation, 2-, 3-, 4-byte lead and 5-byte lead ranges
ByteVals == {65, 128, 191, 193, 223, 225, 239, 240, 247, 248}

\* the malformed sequences of test 'decode / strings'
TestTails ==
    {<<143>>, <<193, 130>>, <<192>>, <<192, 192>>, <<225, 130, 131>>, <<225, 130>>, <<225, 192>>,
     <<225, 130, 224>>, <<225, 224, 131>>, <<241, 130, 131, 132>>, <<241, 242, 131, 132>>,
     <<241, 130, 243, 132>>, <<241, 130, 131, 244>>, <<252>>, <<254>>}

StringBytes ==
    {<<65>> \o s \o <<67>> : s \in {<<a>> : a \in ByteVals} \cup {<<a, b>> : a \in ByteVals, b \in ByteVals}
                                   \cup {<<a, b, c>> : a \in ByteVals, b \in ByteVals, c \in ByteVals}}
    \cup {<<lead, c2, c3, c4>> : lead \in {240, 241, 244, 247}, c2 \in {128, 143, 144, 191, 65},
                                 c3 \in {128, 191, 65}, c4 \in {128, 191, 65}}
    \cup {<<65>> \o s \o <<67>> : s \in TestTails}
    \cup {Rep(65, 97) \o s \o <<67>> : s \in TestTails}

\* n = PushBuffer.byteLength(s)
ByteLength(s) ==
    /\ pc \in {"idle", "filled"}
    /\ pc' = "measured"
    /\ arg' = Str(s)
    /\ result' = [ok |-> TRUE, v |-> FromInt(byteLength(s))]
    /\ op' = Called("byteLength", 0, wbuf)
    /\ UNCHANGED <<wbuf, wire, rbuf, pbuf, written, pure>>

\* n = PushBuffer.guessByteLength(s)
GuessByteLength(s) ==
    /\ pc \in {"idle", "filled"}
    /\ pc' = "measured"
    /\ arg' = Str(s)
    /\ result' = [ok |-> TRUE, v |-> FromInt(guessByteLength(s))]
    /\ op' = Called("guessByteLength", 0, wbuf)
    /\ UNCHANGED <<wbuf, wire, rbuf, pbuf, written, pure>>

\* wbuf.pushBytes of 200 and of 256 bytes: the second fits without a reallocation and
\* leaves one byte of room
Fill ==
    /\ pc = "idle"
    /\ pc' = "filled"
    /\ wbuf' = pushBytes(pushBytes(wbuf, Rep(32, 200)), Rep(32, 256))
    /\ wire' = slice(wbuf', 0, 0)
    /\ UNCHANGED <<arg, result, rbuf, pbuf, written, op, pure>>

\* wbuf.pushString(s), without the length
PushString ==
    /\ pc = "measured"
    /\ pc' = "pushed"
    /\ wbuf' = pushString(wbuf, arg.u, 0)
    /\ wire' = slice(wbuf', 0, 0)
    /\ UNCHANGED <<arg, result, rbuf, pbuf, written, op, pure>>

\* encodeString(wbuf, s)
EncodeString ==
    /\ pc = "measured"
    /\ pc' = "encoded"
    /\ wbuf' = encodeString(wbuf, arg.u)
    /\ wire' = slice(wbuf', 0, 0)
    /\ UNCHANGED <<arg, result, rbuf, pbuf, written, op, pure>>

\* s = rbuf.shiftString(len)
ShiftString(len) ==
    /\ pc = "loaded"
    /\ len >= 0
    /\ pc' = "shifted"
    /\ result' = [ok |-> TRUE, v |-> shiftString(rbuf, len).v]
    /\ rbuf' = shiftString(rbuf, len).pb
    /\ op' = Called("shiftString", len, rbuf)
    /\ UNCHANGED <<arg, wbuf, wire, pbuf, written, pure>>

NextStr ==
    \/ \E s \in Strings : ByteLength(s)
    \/ \E s \in Strings : GuessByteLength(s)
    \/ Fill
    \/ PushString
    \/ EncodeString
    \/ \E bs \in StringBytes : Load(bs)
    \/ \E len \in {Len(wire), Len(wire) - 1, Len(wire) - 2} : ShiftString(len)
    \/ Drop

SpecStr == Init /\ [][NextStr]_vars

(***************************************************************************)
(* Properties.                                                             *)
(***************************************************************************)
Encoded == pc \in {"encoded", "decoded"} /\ arg.t # "none"
RoundTripped == pc = "decoded" /\ arg.t # "none"
Received == pc = "decoded" /\ arg.t = "none"

\* no lone surrogate: every lead is followed by a trail, every trail follows a lead
WellFormed(u) ==
    \A i \in 1..Len(u) :
        /\ IsLead(u[i]) => i < Len(u) /\ IsTrail(u[i + 1])
        /\ IsTrail(u[i]) => i > 1 /\ IsLead(u[i - 1])

RECURSIVE Supported(_)
\* a value built from null, undefined, booleans, numbers, well-formed text, byte blobs,
\* sequences and mappings
Supported(v) ==
    CASE v.t \in {"null", "undefined", "boolean", "number", "Buffer"} -> TRUE
      [] v.t = "string" -> WellFormed(v.u)
      [] v.t = "Array"  -> \A i \in 1..Len(v.a) : Supported(v.a[i])
      [] v.t = "Object" -> \A i \in 1..Len(v.p) : WellFormed(v.p[i][1]) /\ Supported(v.p[i][2])
      [] OTHER -> FALSE

\* C1: decode(encode(v)) reproduces every supported value v, the order of the elements
\* of a sequence and of the keys of a mapping included.
C1_RoundTrip ==
    RoundTripped /\ Supported(arg) => result.ok /\ result.v = arg

\* an integer of the signed 32-bit range (and not -0)
IsInt32Value(v) ==
    /\ v.t = "number"
    /\ IsIntegral(v) /\ v # NegZero
    /\ ~NumLess(v, Num(MinInt32)) /\ ~NumLess(Num(MaxInt32), v)

IntOf(v) == NumToInt32(v)

\* C2: decode(encode(n)) returns exactly n for every integer n of -2^31 .. 2^31-1.
C2_Int32RoundTrip ==
    RoundTripped /\ IsInt32Value(arg) => result.ok /\ result.v = arg

C2_Witness ==
    /\ pc = "decoded" /\ arg = Num(MinInt32)
    /\ wire = <<74, 128, 0, 0, 0>>
    /\ result.ok /\ result.v = Num(MinInt32)

\* C3: encode(n) is one byte for -32 <= n <= 31, with top bits 00 and the low 6 bits
\* of n in two's complement; encode(-33) and encode(32) are a tag and at least one
\* magnitude byte.
C3_InlineBoundary ==
    Encoded /\ IsInt32Value(arg) =>
        /\ IntOf(arg) \in -32 .. 31 =>
               Len(wire) = 1 /\ wire[1] \div 64 = 0 /\ wire[1] % 64 = IntOf(arg) % 64
        /\ IntOf(arg) \in {-33, 32} =>
               Len(wire) >= 2 /\ wire[1] \in {T_UINTB, T_NEGINTB}

C3_Witness ==
    \/ pc = "encoded" /\ arg = Num(-32) /\ wire = <<32>>
    \/ pc = "encoded" /\ arg = Num(32) /\ wire = <<68, 32>>

\* the numbers that take the float path
IsFloatRouted(v) ==
    /\ v.t = "number"
    /\ \/ ~IsIntegral(v)          \* a fraction, NaN or an infinity
       \/ v = NegZero
       \/ NumLess(v, Num(MinInt32)) \/ NumLess(Num(MaxInt32), v)

\* C4: a number that is not integral, is -0, NaN or an infinity, or lies outside the
\* signed 32-bit range is encoded as the tag 0x4F and exactly 8 bytes, never as an
\* inline or sign/magnitude integer.
C4_FloatRouting ==
    Encoded /\ IsFloatRouted(arg) =>
        Len(wire) = 9 /\ wire[1] = 79 /\ SubSeq(wire, 2, 9) = DoubleBytes(arg)

C4_Witness ==
    /\ pc = "encoded" /\ arg = NegZero
    /\ wire = <<79, 128, 0, 0, 0, 0, 0, 0, 0>>

\* the 32 bits of |n|, for an int32 n
Magnitude32(n) ==
    IF n = MinInt32 THEN <<1>> \o Zeros(31)
    ELSE <<0>> \o Bits(IF n < 0 THEN -n ELSE n, 31)

\* the narrowest of 1, 2 and 4 bytes that holds the 32 bits b
NarrowestWidth(b) ==
    IF SubSeq(b, 1, 24) = Zeros(24) THEN 1
    ELSE IF SubSeq(b, 1, 16) = Zeros(16) THEN 2 ELSE 4

\* the last w bytes of the 32 bits b, most significant first
MagnitudeBytes(b, w) ==
    [k \in 1..w |-> BitsVal(SubSeq(b, 32 - 8 * (w - k) - 7, 32 - 8 * (w - k)))]

\* C5: for a 32-bit integer n outside -32..31, encode(n) is the UINT tag (n > 0) or the
\* NEGINT tag (n < 0) of the narrowest of the widths 1, 2 and 4 that holds |n|, and |n|
\* in that many bytes, most significant first; no 8-byte magnitude is emitted.
C5_SignMagnitude ==
    Encoded /\ IsInt32Value(arg) /\ IntOf(arg) \notin -32 .. 31 =>
        LET b == Magnitude32(IntOf(arg))
            w == NarrowestWidth(b)
        IN  wire = <<(IF IntOf(arg) > 0 THEN 68 ELSE 72) + LenBits(w)>> \o MagnitudeBytes(b, w)

C5_Witness ==
    \/ pc = "encoded" /\ arg = Num(-65536) /\ wire = <<74, 0, 1, 0, 0>>
    \/ pc = "encoded" /\ arg = Num(65535) /\ wire = <<69, 255, 255>>

(***************************************************************************)
(* Length forms.                                                           *)
(***************************************************************************)
KindOf(v) ==
    CASE v.t = "string" -> "Text" [] v.t = "Buffer" -> "Bytes"
      [] v.t = "Array" -> "Sequence" [] v.t = "Object" -> "Mapping"

\* the count in the header: UTF-8 bytes of a text, bytes of a blob, elements of a
\* sequence, pairs of a mapping
CountOf(v) ==
    CASE v.t = "string" -> Len(NativeUtf8(v.u)) [] v.t = "Buffer" -> Len(v.bytes)
      [] v.t = "Array" -> Len(v.a) [] v.t = "Object" -> Len(v.p)

\* the tag and the length bytes of the smallest form that holds the count c
HeaderOf(kind, c) ==
    IF c <= 15 THEN <<TypeI(kind) + c>>
    ELSE IF c <= 255 THEN <<TypeB(kind)>> \o LenField(c, 1)
    ELSE IF c <= 65535 THEN <<TypeB(kind) + 1>> \o LenField(c, 2)
    ELSE <<TypeB(kind) + 2>> \o LenField(c, 4)

IsCounted(v) == v.t \in {"string", "Buffer", "Array", "Object"}

\* C6: for texts, blobs, sequences and mappings alike, encode writes the count in the
\* low 4 bits of the tag when it is at most 15, in 1 byte for 16..255, in 2 bytes for
\* 256..65535 and in 4 bytes above, most significant byte first; the bytes of a text or
\* a blob follow the header at once.
C6_LengthForm ==
    Encoded /\ IsCounted(arg) =>
        LET h == HeaderOf(KindOf(arg), CountOf(arg))
        IN  /\ Len(wire) >= Len(h)
            /\ SubSeq(wire, 1, Len(h)) = h
            /\ arg.t \in {"string", "Buffer"} => Len(wire) = Len(h) + CountOf(arg)

\* 128 times U+00E9 is 256 bytes of UTF-8: the 2-byte form, 1 before 0
C6_Witness ==
    /\ pc = "encoded" /\ arg = Str(Rep(233, 128))
    /\ Len(wire) = 259 /\ SubSeq(wire, 1, 3) = <<129, 1, 0>>

(***************************************************************************)
(* Decoding what a peer sent.                                              *)
(***************************************************************************)
\* the value whose content is Payload(kind, c)
PayloadValue(kind, c) ==
    CASE kind = "Text"     -> Str([i \in 1..c |-> 97 + (i % 26)] \o <<>>)
      [] kind = "Bytes"    -> Bytes([i \in 1..c |-> 200 + i] \o <<>>)
      [] kind = "Sequence" -> Arr([i \in 1..c |-> Num(i % 64)] \o <<>>)
      [] kind = "Mapping"  -> Obj([i \in 1..c |-> <<(<<97 + i>>), Num(i % 64)>>] \o <<>>)

\* C7: a length field of 1, 2 or 4 bytes is accepted whatever the count it holds, 0 and
\* the counts of the immediate form included: the bytes decode to the value of the
\* content, the same as the immediate form of that count and content does.
C7_AnyLengthForm ==
    Received =>
        \A k \in Kinds, w \in {1, 2, 4}, c \in 0 .. MaxCount :
            wire = LenWire(k, c, w) =>
                /\ result.ok
                /\ result.v = PayloadValue(k, c)
                /\ rbuf.pos = Len(wire)
                /\ c <= MASK_SHORTLEN => result = Outcome(decode(ImmWire(k, c)))

C7_Witness ==
    /\ pc = "decoded" /\ wire = <<162, 0, 0, 0, 2, 1, 2>>
    /\ result.ok /\ result.v = Arr(<<Num(1), Num(2)>>)

\* the peer sent an 8-byte magnitude
IsMagnitude8 == Received /\ Len(wire) = 9 /\ wire[1] \in {71, 75}

Thrown == ~result.ok /\ result.v.t = "Error" /\ result.v.message = "not supported"

Bits64(b) == FlatRange([k \in 1..8 |-> Bits(b[k], 8)], 1, 8)

\* C9: a UINT64 magnitude below 2^53 is returned exactly, and a NEGINT64 magnitude
\* below 2^53 is returned negated, exactly: the bytes 0,0,0,0,0,0,2,1 give 513 and -513.
C9_Magnitude53 ==
    IsMagnitude8 =>
        LET bits == Bits64(SubSeq(wire, 2, 9))
        IN  SubSeq(bits, 1, 11) = Zeros(11) =>
                /\ result.ok
                /\ result.v = RoundToDouble(IF wire[1] = 71 THEN 0 ELSE 1, bits)
                /\ SubSeq(wire, 2, 9) = <<0, 0, 0, 0, 0, 0, 2, 1>> =>
                       result.v = Num(IF wire[1] = 71 THEN 513 ELSE -513)

C9_Witness ==
    /\ pc = "decoded" /\ wire = <<75, 0, 31, 255, 255, 255, 255, 255, 255>>
    /\ result.ok /\ result.v = Dbl(1, 1075, Ones(52))        \* -(2^53 - 1)

\* the wire is the item w at some depth inside sequences and mappings
Wraps(w) == \E d \in 0 .. MaxDepth : wire = WrapWire(w, d)

\* C10: a tag of the fixed-length regime whose subtype has no case throws 'not
\* supported', at the top and at any depth inside sequences and mappings, in the place
\* of an element, of a key or of a value: decode returns no value, partial or whole.
C10_UnassignedThrows ==
    Received =>
        /\ Len(wire) >= 1 /\ wire[1] \div 64 = 1 /\ wire[1] % 64 \in BadCodes
               => Thrown /\ result.v.type = wire[1]
        /\ \A c \in BadCodes :
               Wraps(<<BadTag(c), 1>>) \/ Wraps(<<T_OBJECTI + 1, BadTag(c), 1>>)
                   => Thrown /\ result.v.type = BadTag(c)

C10_Witness ==
    /\ pc = "decoded" /\ wire = <<227, 1, 77, 1, 64>>
    /\ ~result.ok /\ result.v = NotSupported(77)

\* the peer sent a tag of the length regime that the table leaves unassigned
IsSpareTag(type) ==
    /\ type \div 64 = 2
    /\ (type % 16) \div 4 # 0 \/ type % 4 = 3

\* C11: a tag of the length regime with bits 2-3 set, or with the width selector 3, is
\* refused with a 'not supported' error, and is not decoded as the text, blob, sequence
\* or mapping of its kind bits.
C11_SpareTagThrows ==
    Received /\ Len(wire) >= 1 /\ IsSpareTag(wire[1]) => Thrown

\* decode read at or beyond the end of the bytes it was given
ReadPastEnd == Received /\ rbuf.pos > Len(wire)

\* C12: decode of bytes cut short (the magnitude, the length field, the text, the blob,
\* the elements or the pairs not all there) raises an error and returns no value.
C12_TruncatedThrows ==
    ReadPastEnd => ~result.ok

\* a value of the host that the format has no type for, or undefined itself
IsOddball(v) == v.t \in {"function", "symbol", "bigint", "undefined"}

\* a key of one letter and its value, as encoded when the value is an oddball
OddPair(pair) == <<T_STRINGI + 1, pair[1][1], 65>>

Concat(f) == FlatRange(f, 1, Len(f))

\* the bytes of one element: of its own encoding, or the Undefined tag for a hole
ElementBytes(e) == IF e.t = "hole" THEN <<65>> ELSE encode(e)

SequenceLayout(a) ==
    HeaderOf("Sequence", Len(a)) \o Concat([i \in 1..Len(a) |-> ElementBytes(a[i])] \o <<>>)

\* the key as a text, then the value
PairBytes(pair) == encode(Str(pair[1])) \o encode(pair[2])

MappingLayout(p) ==
    HeaderOf("Mapping", Len(p)) \o Concat([i \in 1..Len(p) |-> PairBytes(p[i])] \o <<>>)

\* what decode makes of the bytes of one element
ElementDecoded(e) == decode(ElementBytes(e)).v

RECURSIVE Build(_, _)
\* the pairs of the mapping made by {} and the first n assignments obj[key] = value of ins
Build(ins, n) == IF n = 0 THEN <<>> ELSE ObjSet(Build(ins, n - 1), ins[n][1], ins[n][2])

\* the mappings of at most this many keys are tried in every order of insertion
MaxInserted == 4

IsBoxed(v) == v.t = "object" /\ v.ctor \in {"Boolean", "Number", "String"} /\ v.toJSON.t = "none"

\* C15: an object with a toJSON method, whatever its constructor, is encoded as what
\* its toJSON() returns is; a byte blob is not converted and is encoded as Bytes; a
\* boxed Boolean, Number or String is encoded as its primitive value is, and decoded
\* as that value.
C15_ToJSONFirst ==
    /\ Encoded /\ arg.t = "object" /\ arg.toJSON.t # "none" => wire = encode(arg.toJSON)
    /\ Encoded /\ arg.t = "Buffer" =>
           wire = HeaderOf("Bytes", Len(arg.bytes)) \o arg.bytes
    /\ Encoded /\ IsBoxed(arg) =>
           /\ wire = encode(arg.valueOf)
           /\ pc = "decoded" => result.ok /\ result.v = arg.valueOf

\* new Date(0) is encoded as the text of 24 characters that its toJSON() returns
C15_Witness ==
    /\ pc = "decoded" /\ arg = Date0
    /\ wire = <<T_STRINGB, 24>> \o EPOCH
    /\ result.ok /\ result.v = Str(EPOCH)

(***************************************************************************)
(* PushBuffer.                                                             *)
(***************************************************************************)
InBounds(pb) == 0 <= pb.pos /\ pb.pos <= pb.end /\ pb.end <= pb.capacity

\* C16: 0 <= pos <= end <= capacity in every PushBuffer, made empty or over bytes, after
\* every write and read of encode and decode.
C16_BufferBounds ==
    InBounds(wbuf) /\ InBounds(rbuf) /\ InBounds(pbuf)

\* the last call was one that asks _growBuf for op.n bytes
Grew == op.name \in {"push", "reserve"}

Needed == op.before.end + op.n

\* the first n bytes of the buffers of a and b are the same
SamePrefix(a, b, n) == \A i \in 0 .. n - 1 : BufGet(a, i) = BufGet(b, i)

Poked(i) == i >= op.at /\ i < op.at + op.n

\* C19: poke(offset, bytes...) writes the low 8 bits of its bytes at offset ..
\* offset + len - 1, where the buffer has room for them, and nothing else: end, pos,
\* capacity, the size of the buffer and every other byte stay as they were.
C19_PokeFrame ==
    op.name = "poke" =>
        /\ pbuf.end = op.before.end /\ pbuf.pos = op.before.pos
        /\ pbuf.capacity = op.before.capacity /\ pbuf.size = op.before.size
        /\ \A i \in 0 .. pbuf.size - 1 :
               IF Poked(i) THEN BufGet(pbuf, i) = op.args[i - op.at + 1] % 256
               ELSE BufGet(pbuf, i) = BufGet(op.before, i)
        /\ Len(pbuf.buf) <= pbuf.size

\* poke(1, -1, 256) over the bytes 1, 2, 3
C19_Witness ==
    /\ op.name = "poke" /\ op.at = 1 /\ op.args = <<-1, 256>>
    /\ op.before.buf = <<1, 2, 3>> /\ pbuf.buf = <<1, 255, 0>>
    /\ pbuf.end = 3

\* C20: after reserve(n) there is room for n more bytes, capacity - end >= n, and end,
\* pos and the bytes below end are as they were.
C20_ReserveRoom ==
    op.name = "reserve" =>
        /\ pbuf.capacity - pbuf.end >= op.n
        /\ pbuf.end = op.before.end /\ pbuf.pos = op.before.pos
        /\ SamePrefix(pbuf, op.before, pbuf.end)

(***************************************************************************)
(* Integers.                                                               *)
(***************************************************************************)
\* the bytes the last shiftBE or shiftLE had before it, most significant first
BytesRead ==
    LET bs == SubSeq(wire, op.before.pos + 1, op.before.pos + op.n)
    IN  IF op.name = "shiftLE" THEN [k \in 1..op.n |-> bs[op.n + 1 - k]] ELSE bs

\* the bits of the unsigned integer these bytes are
BitsRead == StripZeros(FlatRange([k \in 1..op.n |-> Bits(BytesRead[k], 8)], 1, op.n))

\* C21: shiftBE(n) and shiftLE(n), n in {1, 2, 3, 4, 5, 8}, return the unsigned integer
\* that the next n bytes are in big-endian (little-endian) order, exactly when it is
\* below 2^53 and never a negative number, and move pos on by n.
C21_ShiftUnsigned ==
    pc = "shifted" /\ op.name \in {"shiftBE", "shiftLE"} =>
        /\ rbuf.pos = op.before.pos + op.n
        /\ result.v.t = "number" /\ ~IsNaN(result.v) /\ result.v.s = 0
        /\ Len(BitsRead) <= 53 => result.v = RoundToDouble(0, BitsRead)

\* shiftLE(4) of ff ff ff ff is 4294967295, and shiftBE(8) of 00 1f ff ff ff ff ff ff,
\* read after nothing else, is 2^53 - 1
C21_Witness ==
    /\ pc = "shifted"
    /\ \/ /\ op.name = "shiftLE" /\ op.n = 4 /\ BytesRead = <<255, 255, 255, 255>>
          /\ IntegerBits(result.v) = Ones(32) /\ rbuf.pos = 5
       \/ /\ op.name = "shiftBE" /\ op.n = 8 /\ wire = <<0, 31, 255, 255, 255, 255, 255, 255>>
          /\ IntegerBits(result.v) = Ones(53) /\ rbuf.pos = 8

\* the varint of v >= 0: the groups of 7 bits of v, the least significant group first,
\* as many as v has and one for 0, the last with its high bit set
VarintBytes(v) ==
    LET b == IntegerBits(v)
        m == IF Len(b) = 0 THEN 1 ELSE (Len(b) + 6) \div 7
        p == LowBits(b, 7 * m)
    IN  [k \in 1..m |-> BitsVal(SubSeq(p, 7 * (m - k) + 1, 7 * (m - k) + 7))
                        + (IF k = m THEN 128 ELSE 0)]

\* C26: for an integer v, 0 <= v < 2^53, pushVarint(v) writes the 7-bit groups of v least
\* significant first, every byte but the last below 0x80 and the last with its high bit
\* set; the shiftVarint() that follows at the offset they were written at returns v and
\* moves pos on by the number of bytes written.
C26_VarintRoundTrip ==
    /\ pc = "pushed" =>
           /\ wbuf.pos = op.before.end
           /\ SubSeq(wbuf.buf, op.before.end + 1, wbuf.end) = VarintBytes(arg)
           /\ \A i \in op.before.end + 1 .. wbuf.end :
                  (wbuf.buf[i] >= 128) = (i = wbuf.end)
    /\ pc = "read" =>
           /\ result.v = arg
           /\ wbuf.pos = op.before.pos + Len(VarintBytes(arg))
           /\ wbuf.pos = wbuf.end

\* 2^53 - 1 written after another varint and read back: 8 bytes, 7 of them 0x7f
C26_Witness ==
    /\ pc = "read" /\ arg = RoundToDouble(0, Ones(53)) /\ result.v = arg
    /\ op.before.pos > 0 /\ wbuf.end = op.before.pos + 8
    /\ SubSeq(wbuf.buf, op.before.pos + 1, wbuf.end) = <<127, 127, 127, 127, 127, 127, 127, 143>>

(***************************************************************************)
(* slice, and writes to a PushBuffer made over bytes.                      *)
(***************************************************************************)
\* the bytes of the buffer at the offsets base .. bound - 1
Range(pb, base, bound) == [k \in 1 .. bound - base |-> BufGet(pb, base + k - 1)]

\* C22: slice(start, end) returns the bytes at the offsets [start, end) for every
\* 0 <= start <= end <= the end of the buffer, end = 0 and start = end included.
C22_SliceRange ==
    op.name = "slice" => result.v = Bytes(Range(op.before, op.at, op.n))

\* C30: a PushBuffer made over L bytes and then written to with push and pushBytes only
\* keeps the L bytes and has the bytes written behind them: end <= capacity, and slice()
\* is the L bytes followed by the bytes written.
C30_WriteAfterBytes ==
    op.clean /\ op.name # "new" =>
        /\ pbuf.end <= pbuf.capacity
        /\ slice(pbuf, 0, 0) = written

(***************************************************************************)
(* Strings.                                                                *)
(***************************************************************************)
RECURSIVE StandardUtf8(_, _)
\* the UTF-8 bytes of the code units of s from the i-th on: a leading surrogate with a
\* trailing one behind it is one code point of 4 bytes, any other surrogate is U+FFFD
\* and the unit behind it is encoded on its own
StandardUtf8(s, i) ==
    IF i > Len(s) THEN <<>>
    ELSE LET c == s[i]
         IN  IF c <= 127 THEN <<c>> \o StandardUtf8(s, i + 1)
             ELSE IF c <= 2047
             THEN <<192 + (c \div 64), 128 + (c % 64)>> \o StandardUtf8(s, i + 1)
             ELSE IF c <= 55295 \/ c >= 57344
             THEN <<224 + (c \div 4096), 128 + ((c \div 64) % 64), 128 + (c % 64)>>
                  \o StandardUtf8(s, i + 1)
             ELSE IF c <= 56319 /\ i < Len(s) /\ s[i + 1] >= 56320 /\ s[i + 1] <= 57343
             THEN LET cp == 65536 + (c - 55296) * 1024 + (s[i + 1] - 56320)
                  IN  <<240 + (cp \div 262144), 128 + ((cp \div 4096) % 64),
                        128 + ((cp \div 64) % 64), 128 + (cp % 64)>> \o StandardUtf8(s, i + 2)
             ELSE <<239, 191, 189>> \o StandardUtf8(s, i + 1)

\* the bytes the last pushString or encodeString added to wbuf
Added == SubSeq(wire, op.before.end + 1, Len(wire))

\* C23: pushString writes standard UTF-8 for every string of UTF-16 code units: 1, 2 and
\* 3 bytes by the range of the unit, 4 bytes for a leading surrogate with a trailing one
\* right behind it, and EF BF BD for a lone leading or a bare trailing surrogate, the
\* unit behind which is encoded on its own.
C23_StandardUtf8 ==
    pc = "pushed" =>
        /\ Added = StandardUtf8(arg.u, 1)
        /\ wbuf.end = Len(wire)
        /\ SubSeq(wire, 1, op.before.end) = slice(op.before, 0, 0)

\* a pair and a lone leading surrogate behind it: f0 90 80 80 ef bf bd
C23_Witness ==
    /\ pc = "pushed" /\ arg = Str(<<55296, 56320, 55296>>)
    /\ Added = <<240, 144, 128, 128, 239, 191, 189>>

\* C24: byteLength(s) is the number of bytes pushString writes for s, for every string
\* s, surrogate pairs, lone leading and bare trailing surrogates and a leading surrogate
\* at the end included; the length in the header that encodeString writes is the
\* length of the text that follows it.
C24_ByteLengthExact ==
    /\ pc = "pushed" /\ op.name = "byteLength" =>
           /\ NumToInt32(result.v) = wbuf.end - op.before.end
           /\ NumToInt32(result.v) = Len(Added)
    /\ pc = "encoded" /\ op.name = "byteLength" =>
           LET h == HeaderOf("Text", NumToInt32(result.v))
           IN  /\ Len(Added) = Len(h) + NumToInt32(result.v)
               /\ SubSeq(Added, 1, Len(h)) = h
               /\ SubSeq(Added, Len(h) + 1, Len(Added)) = slice(pushString(PushBuffer(NoBytes), arg.u, 0), 0, 0)

\* 99 letters and a surrogate pair, 101 units: 103 bytes behind the header 80 67
C24_Witness ==
    /\ pc = "encoded" /\ op.name = "byteLength" /\ arg = Str(Rep(120, 99) \o <<55296, 56320>>)
    /\ result.v = FromInt(103) /\ Len(wire) = 105 /\ SubSeq(wire, 1, 2) = <<128, 103>>
    /\ SubSeq(wire, 102, 105) = <<240, 144, 128, 128>>

\* C27: guessByteLength(s) >= byteLength(s) for every string s, and pushString without
\* the length writes no byte past the capacity it reserved by the guess.
C27_GuessUpperBound ==
    /\ pc = "measured" /\ op.name = "guessByteLength" =>
           NumToInt32(result.v) >= byteLength(arg.u)
    /\ pc = "pushed" /\ op.name = "guessByteLength" =>
           /\ NumToInt32(result.v) >= wbuf.end - op.before.end
           /\ wbuf.end <= wbuf.capacity /\ wbuf.capacity = wbuf.size
           /\ Len(wbuf.buf) = wbuf.end

\* a surrogate pair, guessed 6 bytes and written in 4, pushed where 1 byte was left:
\* the buffer is reallocated to 2 * 457 + 256 + 6 bytes
C27_Witness ==
    /\ pc = "pushed" /\ op.name = "guessByteLength" /\ arg = Str(<<55296, 56320>>)
    /\ result.v = FromInt(6)
    /\ op.before.end = 456 /\ op.before.capacity = 457
    /\ wbuf.end = 460 /\ wbuf.capacity = 1176

\* the units of an accepted 4-byte sequence carrying the 21-bit value cp
PairOf(cp) == <<(55296 + ((cp - 65536) \div 1024)) % 65536, 56320 + ((cp - 65536) % 1024)>>

\* the lenient decoding of bs from index i on: a byte that starts no complete sequence
\* inside bs gives one U+FFFD and is the only byte consumed
RECURSIVE Lenient(_, _)
Lenient(bs, i) ==
    IF i > Len(bs) THEN <<>>
    ELSE LET b     == bs[i]
             cont(k) == i + k <= Len(bs) /\ bs[i + k] >= 128 /\ bs[i + k] <= 191
             low(k) == bs[i + k] - 128
         IN  IF b < 128 THEN <<b>> \o Lenient(bs, i + 1)
             ELSE IF b >= 192 /\ b <= 223 /\ cont(1)
                  THEN <<(b - 192) * 64 + low(1)>> \o Lenient(bs, i + 2)
             ELSE IF b >= 224 /\ b <= 239 /\ cont(1) /\ cont(2)
                  THEN <<(b - 224) * 4096 + low(1) * 64 + low(2)>> \o Lenient(bs, i + 3)
             ELSE IF b >= 240 /\ b <= 247 /\ cont(1) /\ cont(2) /\ cont(3)
                  THEN PairOf((b - 240) * 262144 + low(1) * 4096 + low(2) * 64 + low(3))
                       \o Lenient(bs, i + 4)
             ELSE <<65533>> \o Lenient(bs, i + 1)

\* C25: shiftString(len) gives one U+FFFD for every byte that does not start a complete
\* sequence inside the len bytes (a stray continuation byte, a lead whose continuation
\* bytes are missing, wrong or beyond len, a lead >= 0xF8), consumes only that byte, and
\* leaves the characters around it intact
C25_OneReplacementPerByte ==
    (pc = "shifted" /\ op.name = "shiftString")
        => result.v = Str(Lenient(SubSeq(wire, 1, op.n), 1))

\* C29: an accepted 4-byte sequence gives a valid surrogate pair whose code point is the
\* 21-bit value of the four bytes
C29_SurrogatePair ==
    (/\ pc = "shifted" /\ op.name = "shiftString" /\ op.n = 4 /\ Len(wire) = 4
     /\ wire[1] >= 240 /\ wire[1] <= 247
     /\ \A k \in 2 .. 4 : wire[k] >= 128 /\ wire[k] <= 191
     /\ Len(result.v.u) = 2)
        => LET u == result.v.u
           IN  /\ u[1] >= 55296 /\ u[1] <= 56319
               /\ u[2] >= 56320 /\ u[2] <= 57343
               /\ 65536 + (u[1] - 55296) * 1024 + (u[2] - 56320)
                      = (wire[1] - 240) * 262144 + (wire[2] - 128) * 4096
                        + (wire[3] - 128) * 64 + (wire[4] - 128)

\* C28: decoding encode(v) ends with pos at the end of the bytes; decoding an encoded
\* value with bytes behind it gives the value of the encoding alone and leaves pos at
\* the first byte behind it; and what decode returns depends on the bytes it consumed only
C28_SelfDelimiting ==
    /\ RoundTripped => (rbuf.pos = rbuf.end /\ rbuf.end = Len(wire) /\ wire = encode(arg))
    /\ \A t \in Tails :
           (/\ Received
            /\ Len(wire) > Len(t)
            /\ SubSeq(wire, Len(wire) - Len(t) + 1, Len(wire)) = t
            /\ SubSeq(wire, 1, Len(wire) - Len(t)) \in EncodedWires)
               => /\ rbuf.pos = Len(wire) - Len(t)
                  /\ result = Outcome(decodeBuf(SubSeq(wire, 1, Len(wire) - Len(t))))
    /\ (pc = "decoded" /\ rbuf.pos <= Len(wire))
           => result = Outcome(decodeBuf(SubSeq(wire, 1, rbuf.pos)))

\* a blob of three bytes followed by a text was received, and decode returned the blob
\* and left pos at the first byte of the text
C28_Witness ==
    /\ Received
    /\ wire = <<T_BYTESI + 3, 255, 0, 128, T_STRINGI + 1, 97>>
    /\ result = [ok |-> TRUE, v |-> Bytes(<<255, 0, 128>>)]
    /\ rbuf.pos = 4
    /\ rbuf.end = 6
====
